---- MODULE Spec2Model ----
(***************************************************************************)
(* Reconciliation & dispatch engine of DecypharrSeed (src/app.py).         *)
(*                                                                         *)
(* The model follows the two dispatch paths of the program, the manual     *)
(* route `enqueue` and the worker's `autosend_process`, over the persisted *)
(* ledger (table `sent`) and the remote torrent clients.  Each path reads  *)
(* the ledger once (sent_map()), then walks its items; the walk is split   *)
(* into one step per item so that the two paths and `reset_sent` can       *)
(* interleave the way two threads of the web application do.               *)
(***************************************************************************)
EXTENDS Integers, Sequences, FiniteSets, TLC

(* ----------------------------- bounds --------------------------------- *)
MaxSel == 2       \* longest manual selection (number of ticked boxes)
MaxFree == 3      \* largest free_space_on_disk a client reports
MaxTime == 1      \* last value of the clock now_ts()

(* --------------------------- data model ------------------------------- *)
NoClient == 0     \* ensure_int(...) of a missing / empty client id

ClientIds == {1, 2}
Labels == {"L1", "L2"}
Hashes == {"h1", "h2"}

\* The items a scan returns (scan_jsons builds one dict per descriptor).
\* f1 and f3 are two descriptor files with the same infohash; f3 has no
\* declared size (extract_size_bytes gives 0).
Catalog ==
  << [name |-> "f1", infohash |-> "h1", size_b |-> 1, tracker_label |-> "L1", tracker_host |-> "a"],
     [name |-> "f2", infohash |-> "h2", size_b |-> 2, tracker_label |-> "L2", tracker_host |-> "b"],
     [name |-> "f3", infohash |-> "h1", size_b |-> 0, tracker_label |-> "L1", tracker_host |-> "a"] >>

ItemIds == DOMAIN Catalog

\* request.form.getlist('sel'): the ticked boxes, in page order.  The scan
\* page shows every item twice (global table and its tracker's table), so
\* the same item can be ticked twice.
Selections ==
  UNION { [1..n -> ItemIds] : n \in 0..MaxSel }

\* The rows of table `clients` as list_clients() returns them: id -> precheck.
ClientTables ==
  UNION { [S -> BOOLEAN] : S \in SUBSET ClientIds }

\* The persisted autosend_cfg as the settings page writes it.  A label
\* without a mapping is absent from `map` (only non-zero ids are stored).
AutosendCfgs ==
  { [global_enabled |-> ge, global_client |-> gc, map |-> m] :
      ge \in BOOLEAN, gc \in ClientIds \cup {NoClient},
      m \in UNION { [S -> ClientIds] : S \in SUBSET Labels } }

\* Two settings and one client table for the runs in which both dispatch
\* paths interleave: under the first, L1 goes to the global client 1 and L2
\* to its mapped client 2; under the second only L1 is mapped.
CoreCfgs ==
  { [global_enabled |-> TRUE, global_client |-> 1, map |-> [l \in {"L2"} |-> 2]],
    [global_enabled |-> FALSE, global_client |-> 1, map |-> [l \in {"L1"} |-> 1]] }

CoreTables == { [c \in ClientIds |-> c = 1] }

\* What c.sync.maindata() yields for free_space_on_disk when it answers
\* (a missing server_state reads as 0); a raising call is a separate input.
FreeSpaces == 0..MaxFree

\* The items the worker hands to autosend_process: the scan's items in file
\* order, or none when the catalog is empty.
AutosendInputs == { << >>, << 1, 2, 3 >> }

(* ------------------------------ worker -------------------------------- *)
MaxInterval == 7      \* the autoscan interval, in sleep increments of 10 s:
                      \* longer than one pass of the six-increment sleep loop

NoThread == 0         \* WORKER_THREAD["t"] is None
SleepIncrements == 6  \* for _ in range(6): ... time.sleep(10)

\* The threads that call start_worker_once; the thread a caller creates is
\* named after it.
Callers == {1, 2}

\* max(1, interval) * 60 seconds, counted in sleep increments.
IntervalTicks == MaxInterval

(* ------------------------------- scan --------------------------------- *)
MaxFiles == 2         \* most descriptor files in the watched directories

NoTrackerLabel == "(sans-tracker)"
NoValue == -1         \* a rule's ratio or seed_days that is NULL (None)

Hosts == {"a", "b"}
Categories == {"", "L", "M"}
Ratios == {NoValue, 2}
SeedDays == {NoValue, 14}

\* The rows upsert_rule writes.
RuleRows == [category : Categories, ratio : Ratios, seed_days : SeedDays]

\* What parse_trackers_from_magnet returns for a descriptor's magnet.
HostLists == { << >>, << "a" >>, << "b" >>, << "a", "b" >>, << "b", "a" >> }

\* A descriptor file: its magnet's tracker hosts, its declared size.
FileKinds == [hosts : HostLists, size_b : {0, 1}]

\* get_json_dirs(): the configured directories, in order.
JsonDirs == << 1, 2 >>

\* The file names a directory can hold (the part before ".json").
Names == {"x", "y"}

\* The places a descriptor file can be at, in the order files are dropped
\* when nothing else is said.
Paths == << << 1, "x" >>, << 1, "y" >>, << 2, "x" >>, << 2, "y" >> >>

\* What a file holds: text that is not JSON; JSON that is not an object; an
\* object without a magnet link anywhere; a descriptor.
Contents == {"garbage", "list", "nomagnet", "ok"}

\* The info_hash a descriptor declares: none, or a hash in upper case.
DeclaredHashes == {"", "H1", "H2"}

\* The file at dir/name: its content, and what a descriptor declares.
Descriptor(dir, name, content, ih, hosts, size_b) ==
  [dir |-> dir, name |-> name, content |-> content, ih |-> ih,
   hosts |-> hosts, size_b |-> size_b]

\* The files of every content, with or without an infohash.
DescriptorKinds ==
  [content : Contents, ih : DeclaredHashes, hosts : {<< "a" >>}, size_b : {1}]

\* The descriptors alone.
ValidKinds ==
  [content : {"ok"}, ih : DeclaredHashes, hosts : {<< "a" >>}, size_b : {1}]

NoSetting == {"(unset)"}

NoScan == [items |-> << >>, grouped |-> [l \in {} |-> 0], live |-> << >>, error |-> FALSE]

\* scan_jsons left through an exception.
ScanRaised == [items |-> << >>, grouped |-> [l \in {} |-> 0], live |-> << >>, error |-> TRUE]

NoPrev == [items |-> {}, files |-> << >>, rules |-> << >>, taken |-> FALSE]

\* A tracker host with a dot in it, next to host a.
DottedHosts == {"t.org"}

\* The descriptors whose magnet names the dotted host, host a, or both.
TrackedKinds ==
  [content : {"ok"}, ih : {"H1", "H2"}, hosts : { << "t.org" >>, << "a" >> }, size_b : {1}]

\* The rows upsert_rule writes for a ratio of "", "0" or "3" and seed days
\* of "", "0" or "7" in the form.
LimitRows == [category : {"", "L"}, ratio : {NoValue, 0, 3}, seed_days : {NoValue, 0, 7}]

DefaultRatio == 2       \* rule.get('ratio') or 2.0
DefaultSeedDays == 14   \* rule.get('seed_days') or 14
Unlimited == -1         \* inactive_seeding_time_limit=-1

\* rules.get(host, {}) for a host without a rule.
NoRule == [category |-> "", ratio |-> NoValue, seed_days |-> NoValue]

NoLimits == [ratio_limit |-> 0, seeding_time_limit |-> 0, inactive_seeding_time_limit |-> 0]

NoItem == [json_path |-> << >>, infohash |-> "", size_b |-> 0, tracker_label |-> "",
           tracker_host |-> "", sent |-> FALSE, live_seed |-> FALSE]

NoSubmit == [path |-> "", it |-> NoItem, out |-> "none", category |-> "",
             tags |-> "none", limits |-> NoLimits, set |-> "none", added |-> 0]
NoCall == [hosts |-> << >>, label |-> "", host |-> ""]
NoReset == [scope |-> "", label |-> "", n |-> 0, msg |-> ""]

(* ------------------------------ probe --------------------------------- *)
\* A torrent state as the client names it: `base` followed by `phase`
\* ("stalled" + "UP" is the label stalledUP).  No base ends in "UP".
St(base, phase) == [base |-> base, phase |-> phase]

\* The states of the client's API, and no state at all.
TorrentStates ==
  { St("uploading", ""), St("downloading", ""), St("", "") }
  \cup { St(b, ph) : b \in {"stalled", "queued", "paused", "stopped", "checking", "forced"},
                     ph \in {"UP", "DL"} }
  \cup { St("meta", "DL"), St("checkingResumeData", ""), St("moving", ""),
         St("allocating", ""), St("missingFiles", ""), St("error", ""),
         St("unknown", "") }

\* The states the probes of several clients are run with.
FewStates == { St("uploading", ""), St("downloading", ""), St("paused", "UP") }

\* qbt_client or torrents_info raising for a client.
ProbeFailures == {"auth", "unreachable"}

\* What a client answers to torrents_info: hash -> state.
TorrentLists(states) ==
  UNION { [S -> states] : S \in SUBSET Hashes }

\* What a client does when probed: it fails, or it lists its torrents.
ProbeAnswers(states) ==
  { [fail |-> f, torrents |-> << >>] : f \in ProbeFailures }
  \cup { [fail |-> "", torrents |-> t] : t \in TorrentLists(states) }

\* The rows of table `clients`: name and host of each id.  Client 2 has
\* no name.
ClientRow(c) ==
  [id |-> c, name |-> IF c = 1 THEN "A" ELSE "", host |-> IF c = 1 THEN "u1" ELSE "u2"]

NoProbe == [clients |-> << >>, answers |-> << >>, map |-> << >>, err |-> FALSE, called |-> FALSE]

VARIABLES
  sent,         \* table `sent`: infohash -> [client_id, ts]
  remote,       \* per client, the infohashes it accepted by torrents_add
  now,          \* now_ts()
  \* enqueue: the request's locals
  e_pc, e_parsed, e_i, e_already, e_client, e_precheck, e_added, e_flash,
  e_last,       \* what the last turn of the send loop did
  e_env,        \* what the client answered to this call
  e_clients,    \* list_clients() as the call read it
  e_start,      \* the ledger's keys when the call read the ledger
  \* autosend_process: its locals
  a_pc, a_items, a_i, a_sent, a_autosend, a_clients, a_added,
  a_last, a_env, a_start,
  \* the worker: WORKER_THREAD, the callers of start_worker_once, the loops
  w_t,          \* WORKER_THREAD["t"]: NoThread, or the thread last stored
  w_stop,       \* WORKER_THREAD["stop"]
  s_pc,         \* per caller, its position in start_worker_once
  w_pc,         \* per thread, its position in worker_loop
  w_k,          \* per thread, the sleep increments left in `for _ in range(6)`
  w_bk, w_sc, w_as,   \* per thread, what each part of the cycle did last
  autoscan_enabled, backup_enabled,   \* autoscan_cfg / backup_cfg "enabled"
  scan_age,     \* now - autoscan_last_ts in sleep increments, saturating
  backup_due,   \* now - backup_last_ts >= 86400
  healthy,      \* the database, the catalog and the clients answer from now on
  \* the scan
  rules,        \* table `rules`: host -> [category, ratio, seed_days]
  files,        \* the descriptor files in the watched directories
  s_out,        \* what the scan_jsons call under way has computed
  l_out,        \* the label_for_hosts call under way: its argument and result
  r_flash,      \* what the reset_sent call under way has flashed
  \* the live-state probe
  p_out,        \* the qbit_live_seed_map call under way: its inputs and result
  \* the watched directories
  dirs,         \* the configured directories that exist
  last_scan_hosts,  \* setting last_scan_hosts: NoSetting, or the hosts of the last scan
  s_prev,       \* the items a caller kept of an earlier scan, and what it scanned
  t_out,        \* the dispatch of a scanned item under way: what the client was asked
  w_items       \* worker_loop's local `items`: what its last scan returned

evars == << e_pc, e_parsed, e_i, e_already, e_client, e_precheck, e_added, e_flash,
            e_last, e_env, e_start, e_clients >>
avars == << a_pc, a_items, a_i, a_sent, a_autosend, a_clients, a_added,
            a_last, a_env, a_start >>
wvars == << w_t, w_stop, s_pc, w_pc, w_k, w_bk, w_sc, w_as,
            autoscan_enabled, backup_enabled, scan_age, backup_due >>
\* the state the dispatch paths and the ledger operations leave alone
pvars == << rules, files, s_out, l_out >>
fvars == << dirs, last_scan_hosts, s_prev, t_out, w_items >>
qvars == << p_out, fvars >>
svars == << pvars, r_flash, qvars >>
xvars == << wvars, healthy, svars >>
vars == << sent, remote, now, evars, avars, xvars >>

(* ----------------------------- ledger --------------------------------- *)
EmptyMap == [h \in {} |-> 0]

\* sent_map(): the keys are what the idempotency checks look at.
SentMap == DOMAIN sent

\* record_sent: REPLACE INTO sent(infohash, client_id, ts).
RecordSentWrongClient(ih, client_id) ==
  [h \in DOMAIN sent \cup {ih} |->
     IF h = ih THEN [client_id |-> CHOOSE c \in ClientIds : c # client_id, ts |-> now]
     ELSE sent[h]]

RecordSentKeepFirst(ih, client_id) ==
  [h \in DOMAIN sent \cup {ih} |->
     IF h = ih /\ h \notin DOMAIN sent THEN [client_id |-> client_id, ts |-> now] ELSE sent[h]]

RecordSent(ih, client_id) ==
  [h \in DOMAIN sent \cup {ih} |->
     IF h = ih THEN [client_id |-> client_id, ts |-> now] ELSE sent[h]]

\* delete_sent_all / delete_sent_by_infohashes.
DeleteSentAll == EmptyMap

DeleteSentByInfohashes(hashes) ==
  [h \in DOMAIN sent \ hashes |-> sent[h]]

(* ------------------------- dispatch helpers --------------------------- *)
\* `if ih.lower() in already: continue` / `if ih in sent: continue`
NeverAlready(ih, snapshot) == FALSE

AlreadySent(ih, snapshot) == ih \in snapshot

\* extract_size_bytes of the descriptor the packed value names.
SizeOf(id) == Catalog[id].size_b

RECURSIVE SumKnown(_)
SumKnown(s) ==
  IF s = << >> THEN 0
  ELSE (IF SizeOf(Head(s)) > 0 THEN SizeOf(Head(s)) ELSE 0) + SumKnown(Tail(s))

\* enqueue's total_needed: every parsed entry with a known size counts.
TotalNeeded(parsed) == SumKnown(parsed)

\* enqueue's `unknown`: the parsed entries without a known size.
Unknown(parsed) == Cardinality({ k \in DOMAIN parsed : SizeOf(parsed[k]) = 0 })

\* `if total_needed > free_b` (enqueue) and `if size_b > free_b` (autosend)
ExceedsOrEqual(need, free_b) == need >= free_b

Exceeds(need, free_b) == need > free_b

\* qbt_client(row) raises when auth_log_in fails; both callers leave through
\* their `except` then.
LoginNeverRaises(login) == FALSE

LoginRaises(login) == login = "KO"

\* c.torrents_add raises: the turn leaves through `except` before
\* record_sent and the count.
AddNeverRaises(add) == FALSE

AddRaises(add) == add = "KO"

\* enqueue: client_row = next((c for c in list_clients() if c['id']==cid), None)
Found(cid, clients) == cid \in DOMAIN clients

\* autosend_process.client_for:
\*   global_client = cfg.global_client if cfg.global_enabled else None
\*   cid = map_by_label.get(lbl) or global_client
\*   return clients.get(int(cid)) if cid else None
\* The result is the id of the row used, NoClient when there is none.
ClientForIgnoringEnabled(it, autosend, clients) ==
  LET cid == IF it.tracker_label \in DOMAIN autosend.map
             THEN autosend.map[it.tracker_label] ELSE autosend.global_client
  IN IF cid # NoClient /\ cid \in DOMAIN clients THEN cid ELSE NoClient

ClientForAnyRow(it, autosend, clients) ==
  LET global_client == IF autosend.global_enabled THEN autosend.global_client ELSE NoClient
      mapped == IF it.tracker_label \in DOMAIN autosend.map
                THEN autosend.map[it.tracker_label] ELSE NoClient
      cid == IF mapped # NoClient THEN mapped ELSE global_client
  IN IF cid = NoClient THEN NoClient
     ELSE IF cid \in DOMAIN clients THEN cid
     ELSE IF DOMAIN clients # {} THEN CHOOSE c \in DOMAIN clients : TRUE
     ELSE NoClient

ClientFor(it, autosend, clients) ==
  LET global_client == IF autosend.global_enabled THEN autosend.global_client ELSE NoClient
      mapped == IF it.tracker_label \in DOMAIN autosend.map
                THEN autosend.map[it.tracker_label] ELSE NoClient
      cid == IF mapped # NoClient THEN mapped ELSE global_client
  IN IF cid # NoClient /\ cid \in DOMAIN clients THEN cid ELSE NoClient

\* A successful torrents_add of infohash ih on client c.
Added(c, ih) ==
  [remote EXCEPT ![c] = @ \cup {ih}]

\* The infohashes some client has accepted.
Held == UNION { remote[c] : c \in ClientIds }

\* What a turn of a send loop logs: the infohash, what became of it, the
\* client it was meant for.  NoEntry before the first turn.
Entry(ih, out, c) == [ih |-> ih, out |-> out, client |-> c]

NoEntry == Entry("", "none", NoClient)

\* What the remote client answered: to the login, to sync.maindata() (and
\* the free space it gave), to torrents_add.  "none": not asked.
Env(login, md, free_b, add) == [login |-> login, md |-> md, free |-> free_b, add |-> add]

NoEnv == Env("none", "none", 0, "none")

Answers == {"ok", "KO"}

DefaultAutosend == [global_enabled |-> FALSE, global_client |-> NoClient, map |-> EmptyMap]

(* ------------------------------ Init ---------------------------------- *)
Init ==
  /\ sent = EmptyMap
  /\ remote = [c \in ClientIds |-> {}]
  /\ now = 0
  /\ e_pc = "idle" /\ e_parsed = << >> /\ e_i = 1 /\ e_already = {}
  /\ e_client = NoClient /\ e_precheck = FALSE /\ e_added = 0 /\ e_flash = << >>
  /\ e_last = NoEntry /\ e_env = NoEnv /\ e_start = {} /\ e_clients = EmptyMap
  /\ a_pc = "idle" /\ a_items = << >> /\ a_i = 1 /\ a_sent = {}
  /\ a_autosend = DefaultAutosend
  /\ a_clients = EmptyMap /\ a_added = 0
  /\ a_last = NoEntry /\ a_env = NoEnv /\ a_start = {}
  /\ w_t = NoThread /\ w_stop = FALSE
  /\ s_pc = [c \in Callers |-> "idle"]
  /\ w_pc = [c \in Callers |-> "none"]
  /\ w_k = [c \in Callers |-> 0]
  /\ w_bk = [c \in Callers |-> "none"]
  /\ w_sc = [c \in Callers |-> "none"]
  /\ w_as = [c \in Callers |-> "none"]
  /\ autoscan_enabled = FALSE /\ backup_enabled = FALSE
  /\ scan_age = IntervalTicks /\ backup_due = TRUE
  /\ healthy = FALSE
  /\ rules = EmptyMap /\ files = << >>
  /\ s_out = NoScan /\ l_out = NoCall
  /\ r_flash = NoReset
  /\ p_out = NoProbe
  /\ dirs = {1, 2} /\ last_scan_hosts = NoSetting /\ s_prev = NoPrev
  /\ t_out = NoSubmit /\ w_items = << >>

(* ------------------------------ enqueue ------------------------------- *)
Flash(msg, need, free_b, unknown, added) ==
  [msg |-> msg, need |-> need, free |-> free_b, unknown |-> unknown, added |-> added]

\* enqueue, from the request to the start of the send loop: the selection,
\* the client row, the login, the free-space query, the ledger snapshot
\* `already`, the size sum and the space decision.
EnqueueStart(tables, frees) ==
  /\ e_pc = "idle"
  /\ \E sel \in Selections, cid \in ClientIds \cup {NoClient}, clients \in tables,
        login \in Answers, md \in Answers, free_b \in frees :
       LET found == Found(cid, clients)
           do_precheck == found /\ clients[cid]
           asked_login == sel # << >> /\ found
           asked_md == asked_login /\ ~LoginRaises(login) /\ do_precheck
           known == asked_md /\ md = "ok"
           total_needed == TotalNeeded(sel)
           unknown == Unknown(sel)
           abort(msg, need, fb) ==
             /\ e_pc' = "done"
             /\ e_flash' = << Flash(msg, need, fb, unknown, 0) >>
             /\ e_already' = {}
       IN /\ e_start' = SentMap
          /\ e_parsed' = sel
          /\ e_client' = cid
          /\ e_clients' = IF sel = << >> THEN EmptyMap ELSE clients
          /\ e_precheck' = do_precheck
          /\ e_env' = Env(IF asked_login THEN login ELSE "none",
                          IF asked_md THEN md ELSE "none",
                          IF known THEN free_b ELSE 0, "none")
          /\ e_i' = 1
          /\ e_added' = 0
          /\ e_last' = NoEntry
          /\ IF sel = << >> THEN abort("Aucune selection", 0, 0)
             ELSE IF ~found THEN abort("Client introuvable", 0, 0)
             ELSE IF LoginRaises(login) THEN abort("Connexion qBittorrent echouee", 0, 0)
             ELSE IF known /\ Exceeds(total_needed, free_b)
               THEN abort("Espace insuffisant", total_needed, free_b)
             ELSE /\ e_pc' = "loop"
                  /\ e_already' = SentMap
                  /\ e_flash' =
                       IF known
                         THEN << Flash("Pre-check espace OK", total_needed, free_b, unknown, 0) >>
                       ELSE IF do_precheck
                         THEN << Flash("Pre-check espace indisponible", 0, 0, 0, 0) >>
                       ELSE << >>
  /\ UNCHANGED << sent, remote, now, avars, xvars >>

EnqueueBegin == EnqueueStart(CoreTables, {MaxFree})

EnqueueBeginAny == EnqueueStart(ClientTables, FreeSpaces)

\* One turn of `for magnet, tracker_host, ih, _jp in parsed`; after the last
\* turn the handler flashes the count.  A failure of torrents_add_tags or
\* torrents_set_share_limits is swallowed and changes nothing here.
EnqueueItem ==
  /\ e_pc = "loop"
  /\ LET ih == Catalog[e_parsed[e_i]].infohash
         last == e_i = Len(e_parsed)
         finish(out, add, added) ==
           /\ e_last' = Entry(ih, out, e_client)
           /\ e_env' = [e_env EXCEPT !.add = add]
           /\ e_i' = e_i + 1
           /\ e_added' = added
           /\ e_pc' = IF last THEN "done" ELSE "loop"
           /\ e_flash' = IF last THEN Append(e_flash, Flash("Ajouts envoyes", 0, 0, 0, added))
                         ELSE e_flash
     IN IF AlreadySent(ih, e_already)
          THEN finish("already", "none", e_added) /\ UNCHANGED << sent, remote >>
          ELSE \E add \in Answers :
                 IF AddRaises(add)
                   THEN finish("fail", add, e_added) /\ UNCHANGED << sent, remote >>
                   ELSE /\ remote' = Added(e_client, ih)
                        /\ sent' = RecordSent(ih, e_client)
                        /\ finish("sent", add, e_added + 1)
  /\ UNCHANGED << now, e_parsed, e_already, e_client, e_precheck, e_start, e_clients,
                  avars, xvars >>

\* The redirect is sent: the request's locals are gone.
EnqueueReturn ==
  /\ e_pc = "done"
  /\ e_pc' = "idle" /\ e_parsed' = << >> /\ e_i' = 1 /\ e_already' = {}
  /\ e_client' = NoClient /\ e_precheck' = FALSE /\ e_added' = 0 /\ e_flash' = << >>
  /\ e_last' = NoEntry /\ e_env' = NoEnv /\ e_start' = {} /\ e_clients' = EmptyMap
  /\ UNCHANGED << sent, remote, now, avars, xvars >>

(* -------------------------- autosend_process -------------------------- *)
\* autosend_process up to its loop: the settings, the ledger snapshot
\* `sent`, the early return on no items, the client rows.
AutosendStart(cfgs, tables, inputs) ==
  /\ a_pc = "idle"
  /\ \E cfg \in cfgs, clients \in tables, items \in inputs :
       /\ a_autosend' = cfg
       /\ a_clients' = clients
       /\ a_items' = items
       /\ a_pc' = IF items = << >> THEN "done" ELSE "loop"
  /\ a_sent' = SentMap
  /\ a_start' = SentMap
  /\ a_i' = 1 /\ a_added' = 0 /\ a_last' = NoEntry /\ a_env' = NoEnv
  /\ UNCHANGED << sent, remote, now, evars >>

AutosendBegin == AutosendStart(CoreCfgs, CoreTables, AutosendInputs) /\ UNCHANGED xvars

AutosendBeginAny == AutosendStart(AutosendCfgs, ClientTables, AutosendInputs) /\ UNCHANGED xvars

\* One turn of `for it in items`: the ledger snapshot, the client of the
\* item, the login, the free-space check of this item, the submission.
AutosendItem ==
  /\ a_pc = "loop"
  /\ LET it == Catalog[a_items[a_i]]
         ih == it.infohash
         cid == ClientFor(it, a_autosend, a_clients)
         finish(out, env, added) ==
           /\ a_last' = Entry(ih, out, cid)
           /\ a_env' = env
           /\ a_i' = a_i + 1
           /\ a_added' = added
           /\ a_pc' = IF a_i = Len(a_items) THEN "done" ELSE "loop"
     IN IF AlreadySent(ih, a_sent)
          THEN finish("already", NoEnv, a_added) /\ UNCHANGED << sent, remote >>
        ELSE IF cid = NoClient
          THEN finish("noclient", NoEnv, a_added) /\ UNCHANGED << sent, remote >>
        ELSE \E login \in Answers, md \in Answers, free_b \in FreeSpaces, add \in Answers :
               LET asked_md == ~LoginRaises(login) /\ a_clients[cid]
                   known == asked_md /\ md = "ok"
                   blocked == known /\ Exceeds(it.size_b, free_b)
                   asked_add == ~LoginRaises(login) /\ ~blocked
                   env == Env(login, IF asked_md THEN md ELSE "none",
                              IF known THEN free_b ELSE 0,
                              IF asked_add THEN add ELSE "none")
               IN IF LoginRaises(login)
                    THEN finish("conn", env, a_added) /\ UNCHANGED << sent, remote >>
                  ELSE IF blocked
                    THEN finish("space", env, a_added) /\ UNCHANGED << sent, remote >>
                  ELSE IF AddRaises(add)
                    THEN finish("fail", env, a_added) /\ UNCHANGED << sent, remote >>
                  ELSE /\ remote' = Added(cid, ih)
                       /\ sent' = RecordSent(ih, cid)
                       /\ finish("sent", env, a_added + 1)
  /\ UNCHANGED << now, a_items, a_sent, a_autosend, a_clients, a_start, evars, xvars >>

\* autosend_process returns added_total to the worker.
AutosendReturn ==
  /\ a_pc = "done"
  /\ a_pc' = "idle" /\ a_items' = << >> /\ a_i' = 1 /\ a_sent' = {}
  /\ a_autosend' = DefaultAutosend
  /\ a_clients' = EmptyMap /\ a_added' = 0
  /\ a_last' = NoEntry /\ a_env' = NoEnv /\ a_start' = {}
  /\ UNCHANGED << sent, remote, now, evars, xvars >>

\* What a turn of autosend_process writes to the log: logger.warning for a
\* client that cannot be reached and for a submission that raised,
\* logger.info for a skip for space and for a submission.  The `except
\* Exception: pass` around the free-space query writes nothing.
AutosendLogs(entry) ==
  IF entry.out = "conn" THEN { [level |-> "warning", about |-> "client KO"] }
  ELSE IF entry.out = "space" THEN { [level |-> "info", about |-> "skip (space)"] }
  ELSE IF entry.out = "fail" THEN { [level |-> "warning", about |-> "add failed"] }
  ELSE IF entry.out = "sent" THEN { [level |-> "info", about |-> "added"] }
  ELSE {}

(* ----------------------------- reset_sent ----------------------------- *)
\* grouped.get(label)["items"] of a fresh scan: the items of that label.
LabelHashesAny(label) ==
  { Catalog[k].infohash : k \in ItemIds }

LabelHashes(label) ==
  { Catalog[k].infohash : k \in { j \in ItemIds : Catalog[j].tracker_label = label } }

ResetGlobal ==
  /\ sent # EmptyMap
  /\ sent' = DeleteSentAll
  /\ UNCHANGED << remote, now, evars, avars, xvars >>

ResetLabel ==
  /\ \E label \in Labels :
       /\ LabelHashes(label) \cap DOMAIN sent # {}
       /\ sent' = DeleteSentByInfohashes(LabelHashes(label))
  /\ UNCHANGED << remote, now, evars, avars, xvars >>

\* request.form.get("scope") and request.form.get("label") of a POST to
\* /reset_sent: "" stands for a field left out, "other"/"L9" for a value
\* the program does not know.
ResetScopes == {"global", "label", "other", ""}

ResetLabels == Labels \cup {"", "L9"}

\* What the handler flashed: the scope it served, the label, the count n.
ResetFlash(scope, label, n, msg) == [scope |-> scope, label |-> label, n |-> n, msg |-> msg]

\* reset_sent, the whole handler.  delete_sent_all returns the row count
\* before the DELETE; delete_sent_by_infohashes returns 0 at once for an
\* empty list and the DELETE's rowcount otherwise.
ResetSent ==
  /\ r_flash = NoReset
  /\ \E scope \in ResetScopes, label \in ResetLabels :
       IF scope = "global"
         THEN /\ sent' = DeleteSentAll
              /\ r_flash' = ResetFlash(scope, "", Cardinality(DOMAIN sent), "success")
       ELSE IF scope = "label"
         THEN LET target == LabelHashes(label)
              IN IF target = {}
                   THEN /\ sent' = sent
                        /\ r_flash' = ResetFlash(scope, label, 0, "success")
                   ELSE /\ sent' = DeleteSentByInfohashes(target)
                        /\ r_flash' = ResetFlash(scope, label,
                                            Cardinality(DOMAIN sent \cap target), "success")
       ELSE /\ sent' = sent
            /\ r_flash' = ResetFlash(scope, "", 0, "error")
  /\ UNCHANGED << remote, now, evars, avars, wvars, healthy, pvars, qvars >>

\* The redirect to the scan page shows the flash and drops it.
ResetReturn ==
  /\ r_flash # NoReset
  /\ r_flash' = NoReset
  /\ UNCHANGED << sent, remote, now, evars, avars, wvars, healthy, pvars, qvars >>

\* The wall clock behind now_ts() moves on.
Tick ==
  /\ now < MaxTime
  /\ now' = now + 1
  /\ UNCHANGED << sent, remote, evars, avars, xvars >>

(* ------------------------- qbit_live_seed_map ------------------------- *)
\* str.lower() on the infohashes of the model.
Lower(ih) == IF ih = "H1" THEN "h1" ELSE IF ih = "H2" THEN "h2" ELSE ih

\* list_clients(): the rows of the configured clients, ORDER BY id.
RECURSIVE ListClients(_)
ListClients(ids) ==
  IF ids = {} THEN << >>
  ELSE LET m == CHOOSE c \in ids : \A d \in ids : c <= d
       IN << ClientRow(m) >> \o ListClients(ids \ {m})

\* live = st.endswith("UP") or st in {"uploading", "stalledUP", ...}
LiveSuffixOnly(st) == st.phase = "UP"

Live(st) ==
  \/ st.phase = "UP"
  \/ st \in { St("uploading", ""), St("stalled", "UP"), St("queued", "UP"),
              St("paused", "UP"), St("checking", "UP"), St("forced", "UP") }

\* row.get("name") or f"client#{row.get('id')}"
ClientName(row) ==
  IF row.name # "" THEN row.name
  ELSE IF row.id = 1 THEN "client#1" ELSE "client#2"

\* out[ih] = {...} for one torrent of a client.
LiveEntry(row, st) ==
  [live |-> Live(st), client |-> ClientName(row), state |-> st, url |-> row.host]

\* `except Exception`: the failure of a client is caught.
ProbeCaughtAuthOnly(failure) == failure = "auth"

ProbeCaught(failure) == failure \in ProbeFailures

\* `for t in c.torrents_info(): out[ih] = ...` over the map of the clients
\* before.
ProbeKeepFirst(out, row, torrents) ==
  [h \in DOMAIN out \cup { Lower(t) : t \in DOMAIN torrents } |->
     IF h \in DOMAIN out THEN out[h]
     ELSE LiveEntry(row, torrents[CHOOSE t \in DOMAIN torrents : Lower(t) = h])]

ProbeMerge(out, row, torrents) ==
  [h \in DOMAIN out \cup { Lower(t) : t \in DOMAIN torrents } |->
     IF \E t \in DOMAIN torrents : Lower(t) = h
       THEN LiveEntry(row, torrents[CHOOSE t \in DOMAIN torrents : Lower(t) = h])
       ELSE out[h]]

\* `for row in list_clients()` after its first k rows: the map, and
\* whether an exception left the function.
RECURSIVE ProbeUpTo(_, _, _)
ProbeUpTo(rows, answers, k) ==
  IF k = 0 THEN [map |-> EmptyMap, err |-> FALSE]
  ELSE LET prev == ProbeUpTo(rows, answers, k - 1)
           row == rows[k]
           a == answers[row.id]
       IN IF prev.err THEN prev
          ELSE IF a.fail \in ProbeFailures
            THEN (IF ProbeCaught(a.fail) THEN prev ELSE [prev EXCEPT !.err = TRUE])
          ELSE [prev EXCEPT !.map = ProbeMerge(prev.map, row, a.torrents)]

QbitLiveSeedMap(ids, answers) ==
  LET rows == ListClients(ids)
  IN ProbeUpTo(rows, answers, Len(rows))

\* A call of qbit_live_seed_map: the clients configured at that time, and
\* what each of them answers.
ProbeWith(idsets, states) ==
  /\ p_out = NoProbe
  /\ \E ids \in idsets :
       \E answers \in [ids -> ProbeAnswers(states)] :
         LET r == QbitLiveSeedMap(ids, answers)
         IN p_out' = [clients |-> ListClients(ids), answers |-> answers,
                      map |-> r.map, err |-> r.err, called |-> TRUE]
  /\ UNCHANGED << sent, remote, now, evars, avars, wvars, healthy, pvars, r_flash, fvars >>

\* Every state of the API, one client.
ProbeOne == ProbeWith({ {c} : c \in ClientIds }, TorrentStates)

\* Every client table, a few states.
ProbeAll == ProbeWith(SUBSET ClientIds, FewStates)

ProbeReturn ==
  /\ p_out # NoProbe
  /\ p_out' = NoProbe
  /\ UNCHANGED << sent, remote, now, evars, avars, wvars, healthy, pvars, r_flash, fvars >>

(* -------------------------- rules, files ------------------------------ *)
\* upsert_rule: REPLACE INTO rules.  Pages are served one at a time here:
\* no rule or file changes while a scan or a label call holds its result.
Upsert(hosts, rows) ==
  /\ s_out = NoScan /\ l_out = NoCall
  /\ \E h \in hosts, row \in rows :
       rules' = [x \in DOMAIN rules \cup {h} |-> IF x = h THEN row ELSE rules[x]]

UpsertRule ==
  /\ Upsert(Hosts, RuleRows)
  /\ UNCHANGED << files, s_out, l_out, r_flash >>
  /\ UNCHANGED << sent, remote, now, evars, avars, wvars, healthy, qvars >>

\* del_rule: DELETE FROM rules WHERE host = ?
DelRule ==
  /\ s_out = NoScan /\ l_out = NoCall
  /\ \E h \in DOMAIN rules :
       rules' = [x \in DOMAIN rules \ {h} |-> rules[x]]
  /\ UNCHANGED << files, s_out, l_out, r_flash >>
  /\ UNCHANGED << sent, remote, now, evars, avars, wvars, healthy, qvars >>

\* The places of the files there are.
Taken(fs) == { << fs[k].dir, fs[k].name >> : k \in DOMAIN fs }

\* The places where a file can appear: free, in a directory that exists.
FreePaths == { k \in DOMAIN Paths : Paths[k] \notin Taken(files) /\ Paths[k][1] \in dirs }

\* A file of one of these kinds appears at one of these places.
Drop(places, kinds) ==
  /\ s_out = NoScan /\ l_out = NoCall
  /\ Len(files) < MaxFiles
  /\ \E k \in places, f \in kinds :
       files' = Append(files, Descriptor(Paths[k][1], Paths[k][2],
                                         f.content, f.ih, f.hosts, f.size_b))

\* A descriptor file appears in a watched directory: any magnet, any size,
\* at the first free place.
DropFile ==
  /\ FreePaths # {}
  /\ Drop({ CHOOSE k \in FreePaths : \A j \in FreePaths : k <= j },
          { [content |-> "ok", ih |-> "H1", hosts |-> f.hosts, size_b |-> f.size_b] :
              f \in FileKinds })
  /\ UNCHANGED << rules, s_out, l_out, r_flash >>
  /\ UNCHANGED << sent, remote, now, evars, avars, wvars, healthy, qvars >>

(* --------------------------- label_for_hosts -------------------------- *)
\* `if r and r.get("category")` for host h.
HasLabel(h, rs) == h \in DOMAIN rs /\ rs[h].category # ""

\* The loop `for h in hosts` from its k-th turn on; `primary` is returned
\* when the loop runs out.
RECURSIVE LabelFirstOnly(_, _, _, _)
LabelFirstOnly(hosts, rs, k, primary) ==
  IF k <= Len(hosts) /\ HasLabel(hosts[k], rs)
    THEN << rs[hosts[k]].category, hosts[k] >>
    ELSE << primary, primary >>

RECURSIVE LabelFrom(_, _, _, _)
LabelFrom(hosts, rs, k, primary) ==
  IF k > Len(hosts) THEN << primary, primary >>
  ELSE IF HasLabel(hosts[k], rs) THEN << rs[hosts[k]].category, hosts[k] >>
  ELSE LabelFrom(hosts, rs, k + 1, primary)

LabelForHosts(hosts, rs) ==
  LabelFrom(hosts, rs, 1, IF hosts # << >> THEN hosts[1] ELSE NoTrackerLabel)

\* A call of label_for_hosts on some host list, under the rules of the moment.
LabelCall ==
  /\ l_out = NoCall /\ s_out = NoScan
  /\ \E hosts \in HostLists :
       LET lr == LabelForHosts(hosts, rules)
       IN l_out' = [hosts |-> hosts, label |-> lr[1], host |-> lr[2]]
  /\ UNCHANGED << rules, files, s_out, r_flash >>
  /\ UNCHANGED << sent, remote, now, evars, avars, wvars, healthy, qvars >>

LabelReturn ==
  /\ l_out # NoCall
  /\ l_out' = NoCall
  /\ UNCHANGED << rules, files, s_out, r_flash >>
  /\ UNCHANGED << sent, remote, now, evars, avars, wvars, healthy, qvars >>

(* ------------------------------ scan_jsons ---------------------------- *)
\* `for d in dirs: if not p.exists(): continue; files.extend(p.glob(...))`
\* over the first n configured directories.
RECURSIVE GlobUpTo(_, _, _)
GlobUpTo(fs, ds, n) ==
  IF n = 0 THEN << >>
  ELSE GlobUpTo(fs, ds, n - 1)
       \o (IF JsonDirs[n] \in ds
             THEN SelectSeq(fs, LAMBDA f : f.dir = JsonDirs[n])
             ELSE << >>)

\* extract_infohash: the declared hash in lower case, "" when there is none.
ExtractInfohash(f) == Lower(f.ih)

\* f"nohash_{jp.name}": the file's name without its directory.
Placeholder(f) == IF f.name = "x" THEN "nohash_x" ELSE "nohash_y"

\* hosts = parse_trackers_from_magnet(magnet); if not hosts: [NO_TRACKER_LABEL]
HostsOfLast(f) ==
  IF last_scan_hosts = NoSetting \/ f.hosts = << >> THEN << NoTrackerLabel >> ELSE f.hosts

HostsOf(f) == IF f.hosts = << >> THEN << NoTrackerLabel >> ELSE f.hosts

\* The item scan_jsons builds for one descriptor file.
ScanItem(f, rs) ==
  LET lr == LabelForHosts(HostsOf(f), rs)
  IN [json_path |-> << f.dir, f.name >>,
      infohash |-> IF ExtractInfohash(f) # "" THEN ExtractInfohash(f) ELSE Placeholder(f),
      size_b |-> f.size_b, tracker_label |-> lr[1], tracker_host |-> lr[2]]

\* `for jp in files` over the first k files found: global_items,
\* last_hosts_set, and whether an exception left the loop.  json.loads
\* failing is caught (continue); data.get on JSON that is not an object
\* raises outside the try; a file without a magnet is passed over.
RECURSIVE ReadUpTo(_, _, _)
ReadUpTo(found, rs, k) ==
  IF k = 0 THEN [items |-> << >>, hosts |-> {}, err |-> FALSE]
  ELSE LET prev == ReadUpTo(found, rs, k - 1)
           f == found[k]
       IN IF prev.err THEN prev
          ELSE IF f.content = "garbage" THEN prev
          ELSE IF f.content = "list" THEN [prev EXCEPT !.err = TRUE]
          ELSE IF f.content = "nomagnet" THEN prev
          ELSE [prev EXCEPT !.items = Append(@, ScanItem(f, rs)),
                            !.hosts = @ \cup { HostsOf(f)[j] : j \in DOMAIN HostsOf(f) }]

\* The merge loop, for one item: it["sent"], it["live_seed"].
MergeItemSentOnly(it, s_map, live_map) ==
  LET ih == Lower(it.infohash)
  IN [json_path |-> it.json_path, infohash |-> it.infohash, size_b |-> it.size_b,
      tracker_label |-> it.tracker_label, tracker_host |-> it.tracker_host,
      sent |-> ih \in s_map,
      live_seed |-> IF ih \in s_map /\ ih \in DOMAIN live_map
                      THEN live_map[ih].live ELSE FALSE]

MergeItem(it, s_map, live_map) ==
  LET ih == Lower(it.infohash)
  IN [json_path |-> it.json_path, infohash |-> it.infohash, size_b |-> it.size_b,
      tracker_label |-> it.tracker_label, tracker_host |-> it.tracker_host,
      sent |-> ih \in s_map,
      live_seed |-> IF ih \in DOMAIN live_map THEN live_map[ih].live ELSE FALSE]

\* The key an item is grouped under.
GroupKeyHost(it) == it.tracker_host

GroupKey(it) == it.tracker_label

NewGroup == [items |-> << >>, total |-> 0, hosts |-> {}, rule_summary |-> << >>]

\* `for it in global_items`: grouped after the first n items.  A group
\* keeps its items as their positions in global_items.
RECURSIVE GroupUpTo(_, _)
GroupUpTo(items, n) ==
  IF n = 0 THEN [l \in {} |-> NewGroup]
  ELSE LET g == GroupUpTo(items, n - 1)
           it == items[n]
           lbl == GroupKey(it)
           old == IF lbl \in DOMAIN g THEN g[lbl] ELSE NewGroup
       IN [l \in DOMAIN g \cup {lbl} |->
             IF l = lbl
               THEN [old EXCEPT !.items = Append(@, n),
                                !.total = @ + it.size_b,
                                !.hosts = @ \cup {it.tracker_host}]
               ELSE g[l]]

\* rtxt, the parts of a group's rule_summary before "; ".join: empty when
\* no rule is present for its hosts, when the rules present differ, and
\* when they agree on values that are both None.
RuleSummary(hosts, rs) ==
  LET present == { h \in hosts : h \in DOMAIN rs }
  IN IF present = {} THEN << >>
     ELSE LET r0 == rs[CHOOSE h \in present : TRUE]
          IN IF \A h \in present :
                  << rs[h].ratio, rs[h].seed_days >> = << r0.ratio, r0.seed_days >>
               THEN (IF r0.ratio # NoValue
                       THEN << [k |-> "ratio", v |-> r0.ratio] >> ELSE << >>)
                    \o (IF r0.seed_days # NoValue
                          THEN << [k |-> "seed", v |-> r0.seed_days] >> ELSE << >>)
               ELSE << >>

\* grouped, with each group's rule_summary.
Grouped(items, rs) ==
  LET g == GroupUpTo(items, Len(items))
  IN [l \in DOMAIN g |-> [g[l] EXCEPT !.rule_summary = RuleSummary(g[l].hosts, rs)]]

\* scan_jsons(): the files found, the items read from them, the setting
\* last_scan_hosts written, the ledger and the live map merged in, the
\* groups.  The clients configured at that time are one of idsets and answer
\* the probe with torrents in these states.
ScanWith(idsets, states) ==
  /\ s_out = NoScan /\ l_out = NoCall
  /\ files # << >>
  /\ \E ids \in idsets :
       \E answers \in [ids -> ProbeAnswers(states)] :
         LET found == GlobUpTo(files, dirs, Len(JsonDirs))
             r == ReadUpTo(found, rules, Len(found))
             live_map == QbitLiveSeedMap(ids, answers).map
             items == [k \in DOMAIN r.items |-> MergeItem(r.items[k], SentMap, live_map)]
         IN IF r.err
              THEN s_out' = ScanRaised /\ UNCHANGED last_scan_hosts
              ELSE /\ last_scan_hosts' = r.hosts
                   /\ s_out' = [items |-> items, grouped |-> Grouped(items, rules),
                                live |-> live_map, error |-> FALSE]
  /\ UNCHANGED << rules, files, l_out, r_flash >>
  /\ UNCHANGED << sent, remote, now, evars, avars, wvars, healthy, p_out, dirs, s_prev, t_out,
                  w_items >>

\* The scan with no client configured.
ScanJsons == ScanWith({ {} }, FewStates)

\* The scan with client 1 configured.
ScanProbing == ScanWith({ {1} }, FewStates)

\* The caller of a scan keeps its items, to compare a later scan with.
ScanRemember ==
  /\ s_out # NoScan /\ ~s_out.error
  /\ s_prev' = [items |-> { s_out.items[k] : k \in DOMAIN s_out.items },
                files |-> files, rules |-> rules, taken |-> TRUE]
  /\ s_out' = NoScan
  /\ UNCHANGED << rules, files, l_out, r_flash >>
  /\ UNCHANGED << sent, remote, now, evars, avars, wvars, healthy, p_out, dirs, last_scan_hosts,
                  t_out, w_items >>

\* A file of any content appears at any free place.
DropAny ==
  /\ Drop(FreePaths, DescriptorKinds)
  /\ UNCHANGED << rules, s_out, l_out, r_flash >>
  /\ UNCHANGED << sent, remote, now, evars, avars, wvars, healthy, qvars >>

\* The rule of host a gets a label, or another one.
UpsertLabel ==
  /\ Upsert({"a"}, { row \in RuleRows :
                       row.category # "" /\ row.ratio = NoValue /\ row.seed_days = NoValue })
  /\ UNCHANGED << files, s_out, l_out, r_flash >>
  /\ UNCHANGED << sent, remote, now, evars, avars, wvars, healthy, qvars >>

\* A descriptor appears at the first free place.
DropNext ==
  /\ FreePaths # {}
  /\ Drop({ CHOOSE k \in FreePaths : \A j \in FreePaths : k <= j }, ValidKinds)
  /\ UNCHANGED << rules, s_out, l_out, r_flash >>
  /\ UNCHANGED << sent, remote, now, evars, avars, wvars, healthy, qvars >>

\* A descriptor appears at any free place.
DropValid ==
  /\ Drop(FreePaths, ValidKinds)
  /\ UNCHANGED << rules, s_out, l_out, r_flash >>
  /\ UNCHANGED << sent, remote, now, evars, avars, wvars, healthy, qvars >>

\* A configured directory is removed, with the files in it.
RemoveDir ==
  /\ s_out = NoScan /\ l_out = NoCall
  /\ \E d \in dirs :
       /\ dirs' = dirs \ {d}
       /\ files' = SelectSeq(files, LAMBDA f : f.dir # d)
  /\ UNCHANGED << rules, s_out, l_out, r_flash >>
  /\ UNCHANGED << sent, remote, now, evars, avars, wvars, healthy, p_out,
                  last_scan_hosts, s_prev, t_out, w_items >>

\* The setting and the client table the worker dispatches scanned items
\* under: every label goes to client 1, which has no space pre-check.
ScanAutosend == [global_enabled |-> TRUE, global_client |-> 1, map |-> EmptyMap]

ScanClients == [c \in {1} |-> FALSE]

\* A turn of autosend_process on an item of the scan, the client accepting
\* it: torrents_add, then record_sent(ih, client).
AutosendScanned ==
  /\ s_out # NoScan /\ ~s_out.error
  /\ \E i \in DOMAIN s_out.items, login \in Answers, add \in Answers :
       LET it == s_out.items[i]
           ih == Lower(it.infohash)
           cid == ClientFor(it, ScanAutosend, ScanClients)
       IN /\ ~AlreadySent(ih, SentMap)
          /\ cid # NoClient
          /\ ~LoginRaises(login) /\ ~AddRaises(add)
          /\ remote' = Added(cid, ih)
          /\ sent' = RecordSent(ih, cid)
  /\ UNCHANGED << now, evars, avars, wvars, healthy, svars >>

ScanReturn ==
  /\ s_out # NoScan
  /\ s_out' = NoScan
  /\ UNCHANGED << rules, files, l_out, r_flash >>
  /\ UNCHANGED << sent, remote, now, evars, avars, wvars, healthy, qvars >>

(* --------------------- the dispatch of a scanned item ------------------ *)
\* rule = rules.get(tracker_host, {})
RuleOf(it, rs) == IF it.tracker_host \in DOMAIN rs THEN rs[it.tracker_host] ELSE NoRule

\* host.split(".")[0] on the hosts of the model.
FirstSegment(host) == IF host = "t.org" THEN "t" ELSE host

\* enqueue: (rule.get("category") or tracker_host.split(".")[0]).strip()
EnqueueCategory(rule, it) ==
  IF rule.category # "" THEN rule.category ELSE FirstSegment(it.tracker_host)

\* autosend_process: (rule.get("category") or it["tracker_label"]
\*                     or it["tracker_host"].split('.')[0]).strip()
AutosendCategory(rule, it) ==
  IF rule.category # "" THEN rule.category
  ELSE IF it.tracker_label # "" THEN it.tracker_label
  ELSE FirstSegment(it.tracker_host)

\* `x or default` on a rule's value: None and 0 give the default.
OrDefault(x, default) == IF x = NoValue \/ x = 0 THEN default ELSE x

\* The arguments of torrents_set_share_limits.
ShareLimits(rule) ==
  [ratio_limit |-> OrDefault(rule.ratio, DefaultRatio),
   seeding_time_limit |-> OrDefault(rule.seed_days, DefaultSeedDays) * 24 * 60,
   inactive_seeding_time_limit |-> Unlimited]

\* record_sent and the count are reached: torrents_add did not raise; what
\* torrents_add_tags and torrents_set_share_limits raise is passed over.
RecordedAllOk(add, tags, set) == add = "ok" /\ tags = "ok" /\ set = "ok"

Recorded(add, tags, set) == ~AddRaises(add)

\* A dispatch of one item of the scan to client 1, by enqueue (the item's
\* box ticked) or by autosend_process: the ledger is read, and unless the
\* item is in it the client is asked to add the magnet, to tag it and to
\* set its share limits.
DispatchScanned ==
  /\ s_out # NoScan /\ ~s_out.error
  /\ t_out = NoSubmit
  /\ \E i \in DOMAIN s_out.items, path \in {"enqueue", "autosend"},
        add \in Answers, tags \in Answers, set \in Answers :
       LET it == s_out.items[i]
           ih == Lower(it.infohash)
           cid == IF path = "autosend" THEN ClientFor(it, ScanAutosend, ScanClients) ELSE 1
           rule == RuleOf(it, rules)
           category == IF path = "enqueue" THEN EnqueueCategory(rule, it)
                       ELSE AutosendCategory(rule, it)
       IN IF AlreadySent(ih, SentMap)
            THEN /\ t_out' = [NoSubmit EXCEPT !.path = path, !.it = it, !.out = "already"]
                 /\ UNCHANGED << sent, remote >>
          ELSE IF AddRaises(add)
            THEN /\ t_out' = [NoSubmit EXCEPT !.path = path, !.it = it, !.out = "fail",
                                              !.category = category]
                 /\ UNCHANGED << sent, remote >>
          ELSE /\ remote' = Added(cid, ih)
               /\ sent' = IF Recorded(add, tags, set) THEN RecordSent(ih, cid) ELSE sent
               /\ t_out' = [path |-> path, it |-> it, out |-> "sent", category |-> category,
                            tags |-> tags, limits |-> ShareLimits(rule), set |-> set,
                            added |-> IF Recorded(add, tags, set) THEN 1 ELSE 0]
  /\ UNCHANGED << now, evars, avars, wvars, healthy, pvars, r_flash, p_out,
                  dirs, last_scan_hosts, s_prev, w_items >>

\* The call is over.
DispatchReturn ==
  /\ t_out # NoSubmit
  /\ t_out' = NoSubmit
  /\ UNCHANGED << sent, remote, now, evars, avars, wvars, healthy, pvars, r_flash, p_out,
                  dirs, last_scan_hosts, s_prev, w_items >>

\* A descriptor naming the dotted host or host a appears at the first free
\* place.
DropTracked ==
  /\ FreePaths # {}
  /\ Drop({ CHOOSE k \in FreePaths : \A j \in FreePaths : k <= j }, TrackedKinds)
  /\ UNCHANGED << rules, s_out, l_out, r_flash >>
  /\ UNCHANGED << sent, remote, now, evars, avars, wvars, healthy, qvars >>

\* A rule for the dotted host is saved.
UpsertLimits ==
  /\ Upsert(DottedHosts, LimitRows)
  /\ UNCHANGED << files, s_out, l_out, r_flash >>
  /\ UNCHANGED << sent, remote, now, evars, avars, wvars, healthy, qvars >>

(* ----------------------- start_worker_once ---------------------------- *)
\* `if WORKER_THREAD["t"] is not None: return`, read by caller c.
StartCheck(c) ==
  /\ s_pc[c] = "idle"
  /\ s_pc' = [s_pc EXCEPT ![c] = IF w_t # NoThread THEN "noop" ELSE "passed"]
  /\ UNCHANGED << w_t, w_stop, w_pc, w_k, w_bk, w_sc, w_as,
                  autoscan_enabled, backup_enabled, scan_age, backup_due >>
  /\ UNCHANGED << sent, remote, now, evars, avars, healthy, svars >>

\* WORKER_THREAD["stop"] = False
StartClear(c) ==
  /\ s_pc[c] = "passed"
  /\ w_stop' = FALSE
  /\ s_pc' = [s_pc EXCEPT ![c] = "cleared"]
  /\ UNCHANGED << w_t, w_pc, w_k, w_bk, w_sc, w_as,
                  autoscan_enabled, backup_enabled, scan_age, backup_due >>
  /\ UNCHANGED << sent, remote, now, evars, avars, healthy, svars >>

\* t = threading.Thread(target=worker_loop); WORKER_THREAD["t"] = t; t.start()
StartSpawn(c) ==
  /\ s_pc[c] = "cleared"
  /\ w_t' = c
  /\ w_pc' = [w_pc EXCEPT ![c] = "while"]
  /\ s_pc' = [s_pc EXCEPT ![c] = "spawned"]
  /\ UNCHANGED << w_stop, w_k, w_bk, w_sc, w_as,
                  autoscan_enabled, backup_enabled, scan_age, backup_due >>
  /\ UNCHANGED << sent, remote, now, evars, avars, healthy, svars >>

\* The call returns to its caller.
StartReturn(c) ==
  /\ s_pc[c] \in {"noop", "spawned"}
  /\ s_pc' = [s_pc EXCEPT ![c] = "idle"]
  /\ UNCHANGED << w_t, w_stop, w_pc, w_k, w_bk, w_sc, w_as,
                  autoscan_enabled, backup_enabled, scan_age, backup_due >>
  /\ UNCHANGED << sent, remote, now, evars, avars, healthy, svars >>

\* Something sets WORKER_THREAD["stop"] (the flag worker_loop polls).
SetStop ==
  /\ ~w_stop
  /\ w_stop' = TRUE
  /\ UNCHANGED << w_t, s_pc, w_pc, w_k, w_bk, w_sc, w_as,
                  autoscan_enabled, backup_enabled, scan_age, backup_due >>
  /\ UNCHANGED << sent, remote, now, evars, avars, healthy, svars >>

(* ---------------------------- worker_loop ----------------------------- *)
\* Where the loop goes on after `except Exception`: the sleep loop.
OnErrorExit == "exit"

OnError == "nap"

\* A thread is executing worker_loop.
Running(w) == w_pc[w] \notin {"none", "exit"}

\* `while not WORKER_THREAD["stop"]`: leave the loop, or begin a wake cycle.
WorkerWake(w) ==
  /\ w_pc[w] = "while"
  /\ w_pc' = [w_pc EXCEPT ![w] = IF w_stop THEN "exit" ELSE "backup"]
  /\ UNCHANGED << w_t, w_stop, s_pc, w_k, w_bk, w_sc, w_as,
                  autoscan_enabled, backup_enabled, scan_age, backup_due >>
  /\ UNCHANGED << sent, remote, now, evars, avars, healthy, svars >>

\* Where a part of the cycle leaves the thread: on to `next`, or, when it
\* raised, to the except clause and the sleep loop.
Leave(w, out, next) ==
  /\ w_pc' = [w_pc EXCEPT ![w] = IF out = "raise" THEN OnError ELSE next]
  /\ w_k' = [w_k EXCEPT ![w] = IF out = "raise" \/ next = "nap"
                                 THEN SleepIncrements ELSE @]

\* `if bk.get("enabled")` and `if now - last_bk >= 86400`
BackupDueEnabledOnly == backup_enabled

BackupDue == backup_enabled /\ backup_due

\* The backup part: backup_cfg and backup_last_ts are read (rd: the reads
\* raise), and when a backup is due do_backup runs (wr: writing the copy or
\* purging fails, which do_backup catches and logs).
WorkerBackup(w) ==
  /\ w_pc[w] = "backup"
  /\ \E rd \in Answers, wr \in Answers :
       LET due == BackupDue
           out == IF rd = "KO" THEN "raise"
                  ELSE IF ~due THEN "skip"
                  ELSE IF wr = "KO" THEN "caught" ELSE "ok"
       IN /\ w_bk' = [w_bk EXCEPT ![w] = out]
          /\ backup_due' = IF out = "ok" THEN FALSE ELSE backup_due
          /\ Leave(w, out, "scan")
  /\ UNCHANGED << w_t, w_stop, s_pc, w_sc, w_as,
                  autoscan_enabled, backup_enabled, scan_age >>
  /\ UNCHANGED << sent, remote, now, evars, avars, healthy, svars >>

\* `if cfg.get("enabled")` and `if now - last_scan >= interval_sec`
ScanDueAnyway == scan_age >= IntervalTicks

ScanDueEnabledOnly == autoscan_enabled

ScanDue == autoscan_enabled /\ scan_age >= IntervalTicks

\* The scan part: autoscan_cfg and autoscan_last_ts are read (rd), and on
\* a scan tick scan_jsons runs (sc: it raises, or returns the items found)
\* and autoscan_last_ts becomes `now`.
WorkerScan(w) ==
  /\ w_pc[w] = "scan"
  /\ \E rd \in Answers, sc \in Answers, items \in AutosendInputs :
       LET out == IF rd = "KO" THEN "raise"
                  ELSE IF ~ScanDue THEN "skip"
                  ELSE IF sc = "KO" THEN "raise" ELSE "ok"
       IN /\ w_sc' = [w_sc EXCEPT ![w] = out]
          /\ scan_age' = IF out = "ok" THEN 0 ELSE scan_age
          /\ w_items' = IF out = "ok" THEN items ELSE w_items
          /\ Leave(w, out, IF out = "ok" THEN "send" ELSE "nap")
  /\ UNCHANGED << w_t, w_stop, s_pc, w_bk, w_as,
                  autoscan_enabled, backup_enabled, backup_due >>
  /\ UNCHANGED << sent, remote, now, evars, avars, healthy, pvars, r_flash, p_out,
                  dirs, last_scan_hosts, s_prev, t_out >>

\* added = autosend_process(items): the call raises before its loop (its
\* reads of the settings and of the ledger), or it starts.
WorkerAutosend(w) ==
  /\ w_pc[w] = "send"
  /\ \/ /\ w_as' = [w_as EXCEPT ![w] = "raise"]
        /\ Leave(w, "raise", "nap")
        /\ UNCHANGED << sent, remote, now, evars, avars, healthy, svars >>
     \/ /\ AutosendStart(CoreCfgs, CoreTables, {w_items})
        /\ w_as' = [w_as EXCEPT ![w] = "called"]
        /\ w_pc' = [w_pc EXCEPT ![w] = "sending"]
        /\ w_k' = w_k
        /\ UNCHANGED << healthy, svars >>
  /\ UNCHANGED << w_t, w_stop, s_pc, w_bk, w_sc,
                  autoscan_enabled, backup_enabled, scan_age, backup_due >>

\* autosend_process has returned: the cycle is over.
WorkerResume(w) ==
  /\ w_pc[w] = "sending" /\ a_pc = "idle"
  /\ w_as' = [w_as EXCEPT ![w] = "done"]
  /\ Leave(w, "done", "nap")
  /\ UNCHANGED << w_t, w_stop, s_pc, w_bk, w_sc,
                  autoscan_enabled, backup_enabled, scan_age, backup_due >>
  /\ UNCHANGED << sent, remote, now, evars, avars, healthy, svars >>

\* The sleep loop is left: its six turns are over, or the stop flag is seen.
NapOverIgnoringStop(w) == w_k[w] = 0

NapOver(w) == w_stop \/ w_k[w] = 0

\* `for _ in range(6): if WORKER_THREAD["stop"]: break`
WorkerNap(w) ==
  /\ w_pc[w] = "nap"
  /\ w_pc' = [w_pc EXCEPT ![w] = IF NapOver(w) THEN "while" ELSE "sleep"]
  /\ UNCHANGED << w_t, w_stop, s_pc, w_k, w_bk, w_sc, w_as,
                  autoscan_enabled, backup_enabled, scan_age, backup_due >>
  /\ UNCHANGED << sent, remote, now, evars, avars, healthy, svars >>

\* now - autoscan_last_ts after ten more seconds (counted up to the interval).
NotAged(age) == age

Aged(age) == IF age < IntervalTicks THEN age + 1 ELSE age

\* time.sleep(10) is over: ten more seconds since the last scan.
WorkerSleep(w) ==
  /\ w_pc[w] = "sleep"
  /\ w_pc' = [w_pc EXCEPT ![w] = "nap"]
  /\ w_k' = [w_k EXCEPT ![w] = @ - 1]
  /\ scan_age' = Aged(scan_age)
  /\ UNCHANGED << w_t, w_stop, s_pc, w_bk, w_sc, w_as,
                  autoscan_enabled, backup_enabled, backup_due >>
  /\ UNCHANGED << sent, remote, now, evars, avars, healthy, svars >>

(* ------------------------- settings, the clock ------------------------ *)
\* settings, action save_autoscan.
SaveAutoscan ==
  /\ autoscan_enabled' = ~autoscan_enabled
  /\ UNCHANGED << w_t, w_stop, s_pc, w_pc, w_k, w_bk, w_sc, w_as,
                  backup_enabled, scan_age, backup_due >>
  /\ UNCHANGED << sent, remote, now, evars, avars, healthy, svars >>

\* settings, action save_backup.
SaveBackup ==
  /\ backup_enabled' = ~backup_enabled
  /\ UNCHANGED << w_t, w_stop, s_pc, w_pc, w_k, w_bk, w_sc, w_as,
                  autoscan_enabled, scan_age, backup_due >>
  /\ UNCHANGED << sent, remote, now, evars, avars, healthy, svars >>

\* A day has gone by since backup_last_ts.
BackupFallsDue ==
  /\ ~backup_due
  /\ backup_due' = TRUE
  /\ UNCHANGED << w_t, w_stop, s_pc, w_pc, w_k, w_bk, w_sc, w_as,
                  autoscan_enabled, backup_enabled, scan_age >>
  /\ UNCHANGED << sent, remote, now, evars, avars, healthy, svars >>

\* Both dispatch paths, free to overlap: a request thread runs enqueue
\* while the worker thread runs autosend_process.
Next ==
  \/ EnqueueBegin \/ EnqueueItem \/ EnqueueReturn
  \/ AutosendBegin \/ AutosendItem \/ AutosendReturn

Spec == Init /\ [][Next]_vars

\* The manual dispatch under every client table and free-space answer,
\* with resets.
NextEnqueue ==
  \/ EnqueueBeginAny \/ EnqueueItem \/ EnqueueReturn
  \/ ResetGlobal \/ ResetLabel

SpecEnqueue == Init /\ [][NextEnqueue]_vars

\* The worker's dispatch under every setting and client table, with resets.
NextAutosend ==
  \/ AutosendBeginAny \/ AutosendItem \/ AutosendReturn
  \/ ResetGlobal \/ ResetLabel

SpecAutosend == Init /\ [][NextAutosend]_vars

\* The ledger over time: dispatch calls one after the other, resets and the
\* clock in between and during them.
EnqueueBeginAlone == a_pc = "idle" /\ EnqueueBegin

AutosendBeginAlone == e_pc = "idle" /\ AutosendBegin

NextLedger ==
  \/ EnqueueBeginAlone \/ EnqueueItem \/ EnqueueReturn
  \/ AutosendBeginAlone \/ AutosendItem \/ AutosendReturn
  \/ ResetGlobal \/ ResetLabel
  \/ Tick

SpecLedger == Init /\ [][NextLedger]_vars

\* The worker's lifecycle under the default settings (no autoscan, no
\* backup): two threads call start_worker_once, something sets the stop flag.
NextStart ==
  \/ \E c \in Callers : StartCheck(c) \/ StartClear(c) \/ StartSpawn(c) \/ StartReturn(c)
  \/ \E w \in Callers : WorkerWake(w) \/ WorkerBackup(w) \/ WorkerScan(w)
  \/ \E w \in Callers : WorkerNap(w) \/ WorkerSleep(w)
  \/ SetStop

SpecStart == Init /\ [][NextStart]_vars

\* The one worker the program starts, under every setting of autoscan and
\* backup, with its dispatch and the stop flag.
WorkerStep ==
  \/ WorkerWake(1) \/ WorkerBackup(1) \/ WorkerScan(1)
  \/ WorkerAutosend(1) \/ WorkerResume(1)
  \/ WorkerNap(1) \/ WorkerSleep(1)
  \/ AutosendItem \/ AutosendReturn

NextWorker ==
  \/ StartCheck(1) \/ StartClear(1) \/ StartSpawn(1) \/ StartReturn(1)
  \/ WorkerStep
  \/ SetStop
  \/ SaveAutoscan \/ SaveBackup \/ BackupFallsDue

SpecWorker == Init /\ [][NextWorker]_vars

\* The same, the thread being scheduled again and again once started.
SpecWorkerFair == Init /\ [][NextWorker]_vars /\ WF_vars(WorkerStep)

\* The failures that pass: the client cannot be reached, has no room, or
\* refuses the submission.
Transient == {"conn", "space", "fail"}

\* The trouble ends for good, some time after a dispatch call that could not
\* send its last item.
Recover ==
  /\ ~healthy
  /\ a_pc = "done" /\ a_last.out \in Transient /\ a_last.ih \notin DOMAIN sent
  /\ healthy' = TRUE
  /\ UNCHANGED << sent, remote, now, evars, avars, wvars, svars >>

\* A step of the worker while descriptor files stay in the watched
\* directories; once the trouble has ended nothing raises and the clients
\* answer, accept and have room.
RetryStep ==
  /\ WorkerStep
  /\ (w_pc[1] = "scan" /\ w_sc'[1] = "ok") => w_items' # << >>
  /\ (a_pc = "idle" /\ a_pc' # "idle") => a_items' # << >>
  /\ healthy =>
       /\ w_pc[1] = "backup" => w_bk'[1] # "raise"
       /\ w_pc[1] = "scan" => w_sc'[1] # "raise"
       /\ w_pc[1] = "send" => w_as'[1] # "raise"
       /\ a_last'.out \notin Transient

NextRetry ==
  \/ StartCheck(1) \/ StartClear(1) \/ StartSpawn(1) \/ StartReturn(1)
  \/ RetryStep
  \/ SaveAutoscan
  \/ Recover

\* The worker across transient failures and their end.
SpecRetry == Init /\ [][NextRetry]_vars /\ WF_vars(RetryStep)

\* label_for_hosts under every rule table.
NextLabel ==
  \/ UpsertRule \/ DelRule
  \/ LabelCall \/ LabelReturn

SpecLabel == Init /\ [][NextLabel]_vars

\* scan_jsons over the files and the rules.
NextScan ==
  \/ UpsertRule \/ DelRule \/ DropFile
  \/ ScanJsons \/ ScanReturn

SpecScan == Init /\ [][NextScan]_vars

\* The classification of every state a client can report.
NextClassify == ProbeOne \/ ProbeReturn

SpecClassify == Init /\ [][NextClassify]_vars

\* The probe over every client table, clients failing or answering.
NextProbe == ProbeAll \/ ProbeReturn

SpecProbe == Init /\ [][NextProbe]_vars

\* scan_jsons over files of every content, directories coming and going.
NextRead ==
  \/ DropAny \/ RemoveDir
  \/ ScanJsons \/ ScanReturn

SpecRead == Init /\ [][NextRead]_vars

\* scan_jsons with the ledger filled by the dispatch of scanned items and a
\* client answering the probe.
NextMerge ==
  \/ DropValid
  \/ ScanProbing \/ ScanReturn
  \/ AutosendScanned

SpecMerge == Init /\ [][NextMerge]_vars

\* Scans one after the other, the first one's items kept, files and rules
\* changing or not in between.
NextRescan ==
  \/ DropNext
  \/ UpsertLabel
  \/ ScanJsons \/ ScanReturn \/ ScanRemember

SpecRescan == Init /\ [][NextRescan]_vars

\* Both dispatch paths, one call at a time, under every client table and
\* every setting.
EnqueueBeginAnyAlone == a_pc = "idle" /\ EnqueueBeginAny

AutosendBeginAnyAlone == e_pc = "idle" /\ AutosendBeginAny

NextTarget ==
  \/ EnqueueBeginAnyAlone \/ EnqueueItem \/ EnqueueReturn
  \/ AutosendBeginAnyAlone \/ AutosendItem \/ AutosendReturn

SpecTarget == Init /\ [][NextTarget]_vars

\* Scanned items dispatched by either path, under every rule of their host.
NextSubmit ==
  \/ DropTracked \/ UpsertLimits
  \/ ScanJsons \/ ScanReturn
  \/ DispatchScanned \/ DispatchReturn

SpecSubmit == Init /\ [][NextSubmit]_vars

\* reset_sent between and during the dispatch calls that fill the ledger.
NextReset ==
  \/ EnqueueBeginAlone \/ EnqueueItem \/ EnqueueReturn
  \/ AutosendBeginAlone \/ AutosendItem \/ AutosendReturn
  \/ ResetSent \/ ResetReturn

SpecReset == Init /\ [][NextReset]_vars

(* ======================= properties of dispatch ======================== *)
\* A turn of enqueue's send loop / of autosend_process's loop is being taken.
EnqueueTurn == e_pc = "loop" /\ e_i' = e_i + 1

AutosendTurn == a_pc = "loop" /\ a_i' = a_i + 1

\* The infohash the next turn is about.
EnqueueHash == Catalog[e_parsed[e_i]].infohash

AutosendHash == Catalog[a_items[a_i]].infohash

HashesOf(seq) == { Catalog[seq[k]].infohash : k \in DOMAIN seq }

\* C1: idempotence of dispatch.  A turn on an item whose infohash was in the
\* Ledger when the call read it skips the item: nothing is submitted, the
\* count does not move and the Ledger is left as it is; so a call all of
\* whose items were already ledgered ends with added = 0.
C1_Idempotent ==
  [][ /\ (EnqueueTurn /\ EnqueueHash \in e_start) =>
            /\ e_last'.out = "already" /\ e_env'.add = "none"
            /\ e_added' = e_added /\ sent' = sent /\ remote' = remote
      /\ (AutosendTurn /\ AutosendHash \in a_start) =>
            /\ a_last'.out = "already" /\ a_env'.add = "none"
            /\ a_added' = a_added /\ sent' = sent /\ remote' = remote
      /\ (e_pc' = "done" /\ HashesOf(e_parsed') \subseteq e_start') => e_added' = 0
      /\ (a_pc' = "done" /\ HashesOf(a_items') \subseteq a_start') => a_added' = 0
    ]_vars

\* A repeated call: every selected item was ledgered before the call, the
\* call walked them all and added nothing.
C1_Witness ==
  /\ e_pc = "done" /\ Len(e_parsed) = 2 /\ e_last.out = "already"
  /\ HashesOf(e_parsed) \subseteq e_start /\ e_added = 0
  /\ HashesOf(e_parsed) \subseteq DOMAIN sent

\* C2: at most once under concurrency, as claimed: no infohash is submitted
\* both by a manual dispatch and by the worker's dispatch running with it.
C2_AtMostOnce ==
  ~ ( /\ e_last.out = "sent" /\ a_last.out = "sent"
      /\ e_last.ih = a_last.ih )

\* C3: the reported count, as claimed: when a call is over, `added` is the
\* number of infohashes in the Ledger now that were not in it before.
C3_AddedIsNewEntries ==
  /\ (e_pc = "done" /\ e_last # NoEntry) => e_added = Cardinality(SentMap \ e_start)
  /\ (a_pc = "done" /\ a_last # NoEntry) => a_added = Cardinality(SentMap \ a_start)

\* C9: the idempotency check, as claimed, looks at the Ledger as it is just
\* before the item is sent: a turn on an infohash the Ledger holds by then
\* skips the item.
C9_FreshCheck ==
  [][ /\ (EnqueueTurn /\ EnqueueHash \in DOMAIN sent) => e_last'.out = "already"
      /\ (AutosendTurn /\ AutosendHash \in DOMAIN sent) => a_last'.out = "already"
    ]_vars

RECURSIVE SelBytes(_, _)
SelBytes(sel, n) ==
  IF n = 0 THEN 0 ELSE Catalog[sel[n]].size_b + SelBytes(sel, n - 1)

\* The same sum over the entries whose infohash is not in `ledger`.
RECURSIVE CandidateBytes(_, _, _)
CandidateBytes(sel, n, ledger) ==
  IF n = 0 THEN 0
  ELSE (IF Catalog[sel[n]].infohash \in ledger THEN 0 ELSE Catalog[sel[n]].size_b)
       + CandidateBytes(sel, n - 1, ledger)

InsufficientSpace(flash) == flash # << >> /\ flash[1].msg = "Espace insuffisant"

\* C5: space preflight of enqueue.  With precheck on and free space known,
\* a selection whose byte sum is strictly greater than free space ends the
\* call with the insufficient-space message (sum, free space and the count
\* of unknown sizes reported), nothing submitted and the Ledger untouched; a
\* sum equal to or below free space lets the call go on to its send loop.
C5_SpacePreflight ==
  [][ (e_pc = "idle" /\ e_precheck' /\ e_env'.md = "ok") =>
        LET need == SelBytes(e_parsed', Len(e_parsed')) IN
        IF need > e_env'.free
          THEN /\ e_pc' = "done" /\ InsufficientSpace(e_flash')
               /\ e_flash'[1].need = need /\ e_flash'[1].free = e_env'.free
               /\ e_flash'[1].unknown =
                    Cardinality({ k \in DOMAIN e_parsed' : Catalog[e_parsed'[k]].size_b = 0 })
               /\ e_last' = NoEntry /\ e_added' = 0
               /\ sent' = sent /\ remote' = remote
          ELSE e_pc' = "loop" /\ ~InsufficientSpace(e_flash')
    ]_vars

\* The boundary: the sum equals free space and an item went out.
C5_Witness ==
  /\ e_precheck /\ e_env.md = "ok"
  /\ SelBytes(e_parsed, Len(e_parsed)) = e_env.free /\ e_env.free > 0
  /\ e_last.out = "sent"

\* C6, as claimed: the sum the preflight compares counts only the entries
\* not yet in the Ledger, so a selection whose candidates fit is not turned
\* away for space.
C6_CandidatesOnly ==
  ( /\ e_precheck /\ e_env.md = "ok"
    /\ CandidateBytes(e_parsed, Len(e_parsed), e_start) <= e_env.free )
  => ~InsufficientSpace(e_flash)

\* C7: per-item failure isolation.  A turn whose torrents_add fails writes
\* nothing to the Ledger and does not count, and the loop goes on; every
\* turn on an item not yet ledgered (and, in autosend_process, with a client,
\* a login and room for it) does call torrents_add, and writes the Ledger
\* and counts when it succeeds.
C7_FailureIsolation ==
  [][ /\ (EnqueueTurn /\ e_env'.add = "KO") =>
            /\ e_last'.out = "fail" /\ e_added' = e_added
            /\ sent' = sent /\ remote' = remote
            /\ e_pc' = IF e_i = Len(e_parsed) THEN "done" ELSE "loop"
      /\ (EnqueueTurn /\ EnqueueHash \notin e_start) => e_env'.add \in Answers
      /\ (EnqueueTurn /\ e_env'.add = "ok") =>
            /\ e_last'.out = "sent" /\ e_added' = e_added + 1
            /\ EnqueueHash \in DOMAIN sent'
      /\ (AutosendTurn /\ a_env'.add = "KO") =>
            /\ a_last'.out = "fail" /\ a_added' = a_added
            /\ sent' = sent /\ remote' = remote
            /\ a_pc' = IF a_i = Len(a_items) THEN "done" ELSE "loop"
      /\ (AutosendTurn /\ a_env'.login = "ok" /\ a_last'.out # "space") =>
            a_env'.add \in Answers
      /\ (AutosendTurn /\ a_env'.add = "ok") =>
            /\ a_last'.out = "sent" /\ a_added' = a_added + 1
            /\ AutosendHash \in DOMAIN sent'
    ]_vars

\* Two fresh items selected, the first failed, the second went out.
C7_Witness ==
  /\ e_pc = "done" /\ Len(e_parsed) = 2 /\ e_start = {}
  /\ Catalog[e_parsed[1]].infohash # Catalog[e_parsed[2]].infohash
  /\ e_last.out = "sent" /\ e_added = 1
  /\ Catalog[e_parsed[1]].infohash \notin DOMAIN sent

\* C8: Ledger writes track successful submissions.  A Ledger entry appears
\* or changes only in a turn whose torrents_add for that infohash succeeded;
\* such a turn writes (infohash, client, now) for the client the item went
\* to; every entry names a client that accepted the infohash.
C8_LedgerTracksAdds ==
  [][ /\ \A h \in DOMAIN sent' :
            (h \notin DOMAIN sent \/ sent'[h] # sent[h]) =>
               \/ EnqueueTurn /\ h = EnqueueHash /\ e_env'.add = "ok"
               \/ AutosendTurn /\ h = AutosendHash /\ a_env'.add = "ok"
      /\ (EnqueueTurn /\ e_env'.add = "ok") =>
            /\ EnqueueHash \in remote'[e_client]
            /\ sent'[EnqueueHash] = [client_id |-> e_client, ts |-> now]
      /\ (AutosendTurn /\ a_env'.add = "ok") =>
            /\ a_last'.client \in ClientIds
            /\ AutosendHash \in remote'[a_last'.client]
            /\ sent'[AutosendHash] = [client_id |-> a_last'.client, ts |-> now]
      /\ \A h \in DOMAIN sent' : h \in remote'[sent'[h].client_id]
    ]_vars

\* An entry written for client 2 after the clock moved, and one written by
\* the worker's dispatch.
C8_Witness ==
  /\ e_last.out = "sent" /\ e_client = 2 /\ now > 0
  /\ e_last.ih \in DOMAIN sent
  /\ sent[e_last.ih] = [client_id |-> 2, ts |-> now]
  /\ \E h \in DOMAIN sent : sent[h].client_id = 1

\* The client the settings name for an item: the one mapped to its label if
\* there is a mapping, else the global client if global_enabled, else none.
Target(it, cfg) ==
  IF it.tracker_label \in DOMAIN cfg.map THEN cfg.map[it.tracker_label]
  ELSE IF cfg.global_enabled THEN cfg.global_client
  ELSE NoClient

\* C10: autosend target resolution.  Every turn on an item not yet ledgered
\* uses the client Target names; with no such client, or one that is not
\* configured, the item is not dispatched; a submission reaches that client
\* only and is ledgered under its id.
C10_TargetResolution ==
  [][ (AutosendTurn /\ AutosendHash \notin a_sent) =>
        LET t == Target(Catalog[a_items[a_i]], a_autosend) IN
        IF t = NoClient \/ t \notin DOMAIN a_clients
          THEN a_last'.out = "noclient" /\ sent' = sent /\ remote' = remote
          ELSE /\ a_last'.client = t
               /\ a_last'.out \in {"conn", "space", "fail", "sent"}
               /\ \A c \in ClientIds \ {t} : remote'[c] = remote[c]
               /\ a_last'.out = "sent" =>
                    /\ AutosendHash \in remote'[t]
                    /\ sent'[AutosendHash].client_id = t
    ]_vars

\* global_enabled is off, a global client is set, and an item went to the
\* other client, the one mapped to its label.
C10_Witness ==
  /\ a_pc # "idle" /\ a_i > 1 /\ a_last.out = "sent"
  /\ ~a_autosend.global_enabled /\ a_autosend.global_client = 1
  /\ Catalog[a_items[a_i - 1]].tracker_label \in DOMAIN a_autosend.map
  /\ a_autosend.map[Catalog[a_items[a_i - 1]].tracker_label] = 2
  /\ a_last.client = 2 /\ a_last.ih \in remote[2]

(* ======================= properties of the worker ====================== *)
\* The threads executing worker_loop.
Loops == { w \in Callers : Running(w) }

\* Caller c executes the test of start_worker_once in this step.
StartCalled(c) == s_pc[c] = "idle" /\ s_pc'[c] # "idle"

\* C11, as claimed: whatever the start calls and however they interleave,
\* at most one thread executes worker_loop.
C11_SingleWorker == Cardinality(Loops) <= 1

\* C12, as claimed: a start call that finds no thread executing worker_loop
\* (none yet, or the loop has ended after a stop) goes on to create one.
C12_StoppedToRunning ==
  [][ \A c \in Callers : (StartCalled(c) /\ Loops = {}) => s_pc'[c] = "passed" ]_vars

\* The thread executes the part of its cycle it stands at.
PartRuns(part) == w_pc[1] = part /\ w_pc'[1] # part

\* The last run of some part of the worker's cycle raised.
Failed == "raise" \in {w_bk[1], w_sc[1], w_as[1]}

\* C13: the worker loop never ends because of an error.  A part of the
\* cycle that raises (the backup check, the scan, autosend) sends the thread
\* to its sleep loop; the thread leaves worker_loop only in a step that sees
\* the stop flag set; and after a failure a new wake cycle begins unless the
\* stop flag is set.
C13_ErrorsKeepRunning ==
  /\ [][ /\ (PartRuns("backup") /\ w_bk'[1] = "raise") => w_pc'[1] = "nap"
         /\ (PartRuns("scan") /\ w_sc'[1] = "raise") => w_pc'[1] = "nap"
         /\ (PartRuns("send") /\ w_as'[1] = "raise") => w_pc'[1] = "nap"
         /\ (w_pc'[1] = "nap" /\ w_pc[1] \notin {"nap", "sleep"}) =>
               w_k'[1] = SleepIncrements
         /\ (Running(1) /\ ~Running(1)') => w_stop
     ]_vars
  /\ (Failed /\ w_pc[1] = "nap") ~> (w_pc[1] = "backup" \/ w_stop)

\* The autosend of an earlier cycle raised, and a later cycle has scanned
\* and is about to call autosend again.
C13_Witness ==
  /\ w_pc[1] = "send" /\ w_as[1] = "raise" /\ w_sc[1] = "ok" /\ ~w_stop

\* C14: stop is observed promptly.  With the stop flag set, the test made
\* before each sleep increment ends the sleep loop (so at most the increment
\* under way is slept out) and the test at the head of the loop begins no
\* new cycle: no backup, scan or autosend begins after it; and the thread
\* eventually leaves worker_loop.  A cycle under way when the flag is set
\* runs to its end before the flag is tested.
C14_StopObserved ==
  /\ [][ w_stop =>
           /\ w_pc[1] = "nap" => w_pc'[1] \in {"nap", "while"}
           /\ w_pc[1] = "while" => w_pc'[1] \in {"while", "exit"}
           /\ w_pc'[1] \in {"backup", "scan", "send", "sending"} =>
                 w_pc[1] \in {"backup", "scan", "send", "sending"}
     ]_vars
  /\ w_stop ~> ~Running(1)

\* The thread has left worker_loop from the middle of its sleep loop.
C14_Witness ==
  /\ w_stop /\ w_pc[1] = "exit"
  /\ w_k[1] > 0 /\ w_k[1] < SleepIncrements

\* C15, as claimed: a cycle whose backup part fails, in do_backup or in the
\* reads before it, still goes on to the scan part; a scan or autosend that
\* fails leaves the thread in its loop.
C15_TimersIsolated ==
  [][ /\ (PartRuns("backup") /\ w_bk'[1] \in {"raise", "caught"}) => w_pc'[1] = "scan"
      /\ (PartRuns("scan") \/ PartRuns("send")) => Running(1)'
    ]_vars

\* C16: retry by periodicity.  With the worker running and autoscan enabled
\* from some point on, and the trouble over, an item whose label resolves to
\* a client (h1: label L1 under every setting) and that an earlier call
\* failed to send does not stay out of the Ledger: a later cycle submits and
\* ledgers it.  Within one call a turn that fails moves on to the next item
\* and submits nothing.
C16_RetryByPeriodicity ==
  /\ []<>( \/ "h1" \in DOMAIN sent
           \/ ~healthy \/ ~autoscan_enabled \/ ~Running(1) )
  /\ [][ (AutosendTurn /\ a_last'.out \in Transient) =>
            /\ a_i' = a_i + 1 /\ remote' = remote /\ sent' = sent
            /\ a_pc' = IF a_i = Len(a_items) THEN "done" ELSE "loop"
     ]_vars

\* After the end of the trouble, which came after a call that had failed
\* on h1, a later call has sent h1.
C16_Witness ==
  /\ healthy /\ a_last = Entry("h1", "sent", 1)
  /\ "h1" \in DOMAIN sent /\ "h1" \in remote[1]

(* ======================== properties of the scan ======================= *)
\* The positions in `hosts` of the hosts whose rule has a non-empty label.
Ruled(hosts, rs) ==
  { k \in DOMAIN hosts : hosts[k] \in DOMAIN rs /\ rs[hosts[k]].category # "" }

\* C17: label_for_hosts is first-match in host order.  The call returns the
\* label of the first host of the list whose rule has a non-empty label,
\* with that host; (hosts[0], hosts[0]) when no host has one; the no-tracker
\* sentinel twice for an empty list.
C17_FirstMatch ==
  [][ (l_out = NoCall /\ l_out' # NoCall) =>
        LET hs == l_out'.hosts
            R == Ruled(hs, rules)
        IN IF hs = << >>
             THEN l_out'.label = NoTrackerLabel /\ l_out'.host = NoTrackerLabel
           ELSE IF R = {}
             THEN l_out'.label = hs[1] /\ l_out'.host = hs[1]
           ELSE LET k == CHOOSE i \in R : \A j \in R : i <= j
                IN l_out'.label = rules[hs[k]].category /\ l_out'.host = hs[k]
    ]_vars

\* The first host has a rule without a label, the second a labelled rule:
\* the second host matched.
C17_Witness ==
  /\ l_out.hosts = << "a", "b" >>
  /\ "a" \in DOMAIN rules /\ rules["a"].category = ""
  /\ l_out.label = "L" /\ l_out.host = "b"

\* The positions of the scan's items that a group holds.
Members(g) == { g.items[j] : j \in DOMAIN g.items }

\* The sizes of the items at the positions in S, summed.
RECURSIVE SizeSum(_, _)
SizeSum(items, S) ==
  IF S = {} THEN 0
  ELSE LET i == CHOOSE x \in S : TRUE
       IN items[i].size_b + SizeSum(items, S \ {i})

\* C18: grouping invariant of a scan.  Every item is in exactly one group,
\* the one keyed by its tracker_label, and once in it; a group's hosts are
\* the rule hosts of its items and its total is the sum of their sizes.
C18_Grouping ==
  LET items == s_out.items
      grouped == s_out.grouped
  IN /\ \A i \in DOMAIN items : \A l \in DOMAIN grouped :
          i \in Members(grouped[l]) <=> l = items[i].tracker_label
     /\ \A i \in DOMAIN items : items[i].tracker_label \in DOMAIN grouped
     /\ \A l \in DOMAIN grouped :
          /\ Members(grouped[l]) # {} /\ Members(grouped[l]) \subseteq DOMAIN items
          /\ Cardinality(Members(grouped[l])) = Len(grouped[l].items)
          /\ grouped[l].hosts = { items[i].tracker_host : i \in Members(grouped[l]) }
          /\ grouped[l].total = SizeSum(items, Members(grouped[l]))

\* Two items whose hosts a and b both carry label L: one group, L, with
\* hosts {a, b}.
C18_Witness ==
  /\ Len(s_out.items) = 2
  /\ { s_out.items[i].tracker_host : i \in DOMAIN s_out.items } = {"a", "b"}
  /\ DOMAIN s_out.grouped = {"L"}
  /\ s_out.grouped["L"].hosts = {"a", "b"}
  /\ s_out.grouped["L"].total = 1

\* C19, as claimed: for a group with a rule present for one of its hosts,
\* the summary is non-empty exactly when the rules present agree on
\* (ratio, seed_days), whatever these values are, unset included.
C19_SummaryIffAgree ==
  \A l \in DOMAIN s_out.grouped :
    LET g == s_out.grouped[l]
        present == { h \in g.hosts : h \in DOMAIN rules }
        agree == \A h1 \in present, h2 \in present :
                   /\ rules[h1].ratio = rules[h2].ratio
                   /\ rules[h1].seed_days = rules[h2].seed_days
    IN present # {} => (agree <=> g.rule_summary # << >>)

(* ======================== properties of reset ========================== *)
\* reset_sent is being served with this scope.
ResetServed(scope) == r_flash = NoReset /\ r_flash' # NoReset /\ r_flash'.scope = scope

UploadPhase(st) ==
  \/ st = St("uploading", "")
  \/ /\ st.phase = "UP"
     /\ st.base \in {"stalled", "queued", "paused", "stopped", "checking", "forced"}

\* C21: live-state classification.  An entry of the live-state map is live
\* exactly when the client reported an upload-phase state; download-phase
\* states and every other state are not live.
C21_LiveClassification ==
  \A h \in DOMAIN p_out.map :
    p_out.map[h].live <=> UploadPhase(p_out.map[h].state)

\* One torrent stalled past its download, live; one downloading, not live.
C21_Witness ==
  /\ DOMAIN p_out.map = {"h1", "h2"}
  /\ p_out.map["h1"].state = St("stalled", "UP") /\ p_out.map["h1"].live
  /\ p_out.map["h2"].state = St("downloading", "") /\ ~p_out.map["h2"].live

\* The clients of the probe under way that answered.
Answering == { c \in DOMAIN p_out.answers : p_out.answers[c].fail = "" }

\* C22: prober failure isolation.  Whatever clients fail, the probe returns,
\* and its map holds exactly the infohashes the answering clients reported,
\* each entry owned by an answering client that reported it.
C22_ProbeIsolation ==
  p_out.called =>
    /\ ~p_out.err
    /\ DOMAIN p_out.map = UNION { DOMAIN p_out.answers[c].torrents : c \in Answering }
    /\ \A h \in DOMAIN p_out.map :
         \E c \in Answering :
           /\ h \in DOMAIN p_out.answers[c].torrents
           /\ p_out.map[h].client = (IF c = 1 THEN "A" ELSE "client#2")
           /\ p_out.map[h].state = p_out.answers[c].torrents[h]

\* The first client is unreachable, the second reports one torrent: the map
\* has that torrent.
C22_Witness ==
  /\ p_out.called /\ ~p_out.err
  /\ DOMAIN p_out.answers = {1, 2}
  /\ p_out.answers[1].fail = "unreachable"
  /\ p_out.answers[2].fail = ""
  /\ DOMAIN p_out.map = {"h1"}

\* C23: prober last-write-wins.  The entry of an infohash is the one of the
\* last answering client, in client-id order, that reported it: its live
\* flag, its name, the state and the endpoint.
C23_LastWriteWins ==
  \A h \in DOMAIN p_out.map :
    LET owners == { c \in Answering : h \in DOMAIN p_out.answers[c].torrents }
        last == CHOOSE c \in owners : \A d \in owners : d <= c
        st == p_out.answers[last].torrents[h]
    IN /\ p_out.map[h].client = (IF last = 1 THEN "A" ELSE "client#2")
       /\ p_out.map[h].url = (IF last = 1 THEN "u1" ELSE "u2")
       /\ p_out.map[h].state = st
       /\ p_out.map[h].live = UploadPhase(st)

\* The first client reports the torrent uploading, the second downloading:
\* the entry is the second's, not live.
C23_Witness ==
  /\ DOMAIN p_out.answers = {1, 2}
  /\ Answering = {1, 2}
  /\ "h1" \in DOMAIN p_out.answers[1].torrents
  /\ p_out.answers[1].torrents["h1"] = St("uploading", "")
  /\ "h1" \in DOMAIN p_out.answers[2].torrents
  /\ p_out.answers[2].torrents["h1"] = St("downloading", "")
  /\ ~p_out.map["h1"].live /\ p_out.map["h1"].client = "client#2"

(* =================== properties of the scan's items =================== *)
\* A scan_jsons call returns its items in this step.
Scanned == s_out = NoScan /\ s_out' # NoScan /\ ~s_out'.error

\* C24: state merge.  Every item of a scan has sent true exactly when its
\* infohash is in the ledger read by that scan, and live_seed true exactly
\* when the live-state map has its infohash with live true; an infohash in
\* neither has both flags false.
C24_StateMerge ==
  [][ Scanned =>
        \A i \in DOMAIN s_out'.items :
          LET it == s_out'.items[i]
              live_map == s_out'.live
          IN /\ it.sent <=> it.infohash \in DOMAIN sent
             /\ it.live_seed <=> (it.infohash \in DOMAIN live_map /\ live_map[it.infohash].live)
             /\ (it.infohash \notin DOMAIN sent /\ it.infohash \notin DOMAIN live_map)
                  => (~it.sent /\ ~it.live_seed)
    ]_vars

\* One scan with an item in the ledger and not live, and an item live and
\* not in the ledger.
C24_Witness ==
  /\ Len(s_out.items) = 2
  /\ \E i \in DOMAIN s_out.items, j \in DOMAIN s_out.items :
       /\ s_out.items[i].sent /\ ~s_out.items[i].live_seed
       /\ ~s_out.items[j].sent /\ s_out.items[j].live_seed

\* The file an item of the scan under way was read from.
FileOf(it) ==
  files[CHOOSE k \in DOMAIN files : << files[k].dir, files[k].name >> = it.json_path]

\* C25, as claimed: two items of a scan read from two files that declare no
\* infohash have different placeholder infohashes.
C25_PlaceholdersDistinct ==
  \A i \in DOMAIN s_out.items, j \in DOMAIN s_out.items :
    (i # j /\ FileOf(s_out.items[i]).ih = "" /\ FileOf(s_out.items[j]).ih = "")
      => s_out.items[i].infohash # s_out.items[j].infohash

\* C26, as claimed: an item whose infohash is a placeholder is reported with
\* sent false by every scan, whatever was dispatched before.
C26_PlaceholderNeverSent ==
  \A i \in DOMAIN s_out.items :
    FileOf(s_out.items[i]).ih = "" => ~s_out.items[i].sent

\* C27, as claimed: whatever the files hold and whatever directories are
\* missing, the scan completes and has one item per descriptor file.
C27_ScannerRobust ==
  s_out # NoScan =>
    /\ ~s_out.error
    /\ Len(s_out.items) = Cardinality({ k \in DOMAIN files : files[k].content = "ok" })

\* The fields of a catalog item (the file stands for name, date and magnet).
CatalogItem(it) ==
  [json_path |-> it.json_path, size_b |-> it.size_b, infohash |-> it.infohash,
   tracker_host |-> it.tracker_host, tracker_label |-> it.tracker_label]

\* The catalog items of the scan returning in this step, and of the scan
\* kept from before.
ItemsNow == { CatalogItem(s_out'.items[k]) : k \in DOMAIN s_out'.items }

ItemsBefore == { CatalogItem(it) : it \in s_prev.items }

C29_ScanPureRead ==
  [][ (s_out = NoScan /\ s_out' # NoScan)
        => (last_scan_hosts' = last_scan_hosts /\ rules' = rules /\ sent' = sent) ]_vars

(* ==================== properties of the target client ================== *)
\* The client id autosend_process is set to send the item to: the one mapped
\* to its label, else the global one when enabled.
Wanted(it, autosend) ==
  IF it.tracker_label \in DOMAIN autosend.map THEN autosend.map[it.tracker_label]
  ELSE IF autosend.global_enabled THEN autosend.global_client
  ELSE NoClient

\* C30: unknown target client.  A manual dispatch whose client id is not in
\* the client table read by the call ends at once, and a turn of the worker's
\* dispatch whose target is not in the table read by the call passes the item
\* over: nothing is submitted and the ledger stays as it was.
C30_UnknownTarget ==
  [][ /\ (e_pc = "idle" /\ e_pc' # "idle" /\ e_parsed' # << >>
            /\ e_client' \notin DOMAIN e_clients')
           => (e_pc' = "done" /\ sent' = sent /\ remote' = remote)
      /\ (AutosendTurn /\ Wanted(Catalog[a_items[a_i]], a_autosend) # NoClient
            /\ Wanted(Catalog[a_items[a_i]], a_autosend) \notin DOMAIN a_clients)
           => (sent' = sent /\ remote' = remote)
    ]_vars

\* A selection sent to client 2 while only client 1 is configured: the call
\* is over, nothing was submitted.
C30_Witness ==
  /\ e_pc = "done" /\ e_parsed # << >>
  /\ e_client = 2 /\ DOMAIN e_clients = {1}
  /\ e_added = 0 /\ sent = EmptyMap /\ remote = [c \in ClientIds |-> {}]

(* =================== properties of the dispatch contract =============== *)
\* C31, as claimed: with precheck on, a free-space query that fails does not
\* block the dispatch: the call is not turned away for space, it goes on to
\* submit its candidates, and it surfaces a warning that the pre-check was
\* unavailable; in enqueue as in autosend_process.
C31_PrecheckUnavailable ==
  /\ (e_pc # "idle" /\ e_precheck /\ e_env.md = "KO") =>
       /\ ~InsufficientSpace(e_flash)
       /\ e_flash # << >> /\ e_flash[1].msg = "Pre-check espace indisponible"
       /\ e_pc = "done" => e_last # NoEntry
  /\ a_env.md = "KO" =>
       /\ a_last.out \in {"sent", "fail"}
       /\ \E l \in AutosendLogs(a_last) : l.level = "warning" /\ l.about = "precheck"

\* A dispatch of a scanned item begins and ends in this step.
Dispatched == t_out = NoSubmit /\ t_out' # NoSubmit

\* C32, as claimed: enqueue and autosend_process submit an item under the
\* same category: the category of the rule of its rule host, else the
\* item's label, else the first dot-separated segment of its rule host.
C32_SameCategory ==
  [][ (Dispatched /\ t_out'.out \in {"sent", "fail"}) =>
        LET it == t_out'.it
            rule == IF it.tracker_host \in DOMAIN rules THEN rules[it.tracker_host] ELSE NoRule
        IN t_out'.category =
             (IF rule.category # "" THEN rule.category
              ELSE IF it.tracker_label # "" THEN it.tracker_label
              ELSE FirstSegment(it.tracker_host))
    ]_vars

\* C33, as claimed: in one run of autosend_process against a client with
\* precheck on that reports the same free space F at every query, the
\* declared sizes of the items submitted to it sum to F at most.  Stated for
\* two turns in a row of one run: both submitted to the same client, which
\* reported the same F both times, so the two sizes together fit in F.
C33_SafeSpaceAccounting ==
  [][ ( /\ AutosendTurn /\ a_last.out = "sent" /\ a_last'.out = "sent"
        /\ a_last.client = a_last'.client /\ a_clients[a_last'.client]
        /\ a_env.md = "ok" /\ a_env'.md = "ok" /\ a_env.free = a_env'.free )
      => Catalog[a_items[a_i - 1]].size_b + Catalog[a_items[a_i]].size_b <= a_env'.free
    ]_vars

\* The entries of a call are different items (no box ticked twice).
Distinct(seq) == \A i \in DOMAIN seq, j \in DOMAIN seq : seq[i] = seq[j] => i = j

\* C34, as claimed: when the items of one dispatch call hold two entries
\* with the same infohash (two descriptor files of one release), the client
\* receives at most one submission for that infohash in the call: the
\* submissions of the call that succeeded are no more than the distinct
\* infohashes among its items.
C34_OncePerInfohash ==
  /\ Distinct(e_parsed) => e_added <= Cardinality(HashesOf(e_parsed))
  /\ Distinct(a_items) => a_added <= Cardinality(HashesOf(a_items))

(* ==================== properties of the worker's cycle ================= *)
\* C35: autosend runs only on a scan tick and after the scan.  In a wake
\* cycle the scan part follows the backup part and autosend follows the
\* scan; the thread comes to autosend only from a scan part that found
\* autoscan enabled and the scan due and whose scan returned; the worker
\* begins autosend_process nowhere else and hands it the items of that
\* scan; a scan part that finds autoscan disabled ends the cycle, and
\* nothing is submitted or ledgered outside such a call.
C35_AutosendOnScanTick ==
  [][ /\ (w_pc'[1] = "scan" /\ w_pc[1] # "scan") => w_pc[1] = "backup"
      /\ (w_pc'[1] = "send" /\ w_pc[1] # "send") =>
            /\ w_pc[1] = "scan"
            /\ autoscan_enabled /\ scan_age >= IntervalTicks
            /\ w_sc'[1] = "ok"
      /\ (a_pc = "idle" /\ a_pc' # "idle") =>
            /\ w_pc[1] = "send" /\ w_sc[1] = "ok"
            /\ a_items' = w_items
      /\ (PartRuns("scan") /\ ~autoscan_enabled) =>
            /\ w_pc'[1] = "nap" /\ w_sc'[1] # "ok"
      /\ (sent' # sent \/ remote' # remote) =>
            /\ w_pc[1] = "sending" /\ w_sc[1] = "ok" /\ a_items = w_items
    ]_vars

\* A cycle has scanned three items and its autosend has submitted one.
C35_Witness ==
  /\ w_pc[1] = "sending" /\ w_sc[1] = "ok"
  /\ w_items = << 1, 2, 3 >> /\ a_items = w_items
  /\ a_last.out = "sent" /\ a_last.ih \in DOMAIN sent

\* C36: scan-due gating.  The scan part of a wake cycle scans only when
\* autoscan is enabled and the interval has gone by since the last-scan
\* timestamp, and it does scan then (unless reading the settings raised);
\* the timestamp is written by a scan that returned and by nothing else, so
\* a scan that failed leaves the scan due, and the time since the timestamp
\* grows by the sleep increments only: the interval lies between two scans
\* that returned.
C36_ScanDueGating ==
  [][ /\ PartRuns("scan") =>
            /\ w_sc'[1] = "ok" => (autoscan_enabled /\ scan_age >= IntervalTicks)
            /\ w_sc'[1] = "skip" => ~(autoscan_enabled /\ scan_age >= IntervalTicks)
            /\ w_sc'[1] \in {"ok", "skip", "raise"}
            /\ w_sc'[1] = "ok" => scan_age' = 0
            /\ w_sc'[1] # "ok" => scan_age' = scan_age
      /\ scan_age' < scan_age => (PartRuns("scan") /\ w_sc'[1] = "ok")
      /\ scan_age' > scan_age => (scan_age' = scan_age + 1 /\ PartRuns("sleep"))
    ]_vars

\* A second scan has returned, a whole cycle after the first.
C36_Witness ==
  /\ w_pc[1] = "send" /\ w_sc[1] = "ok" /\ scan_age = 0
  /\ w_as[1] = "done"

\* C37: backup-due gating.  The backup part of a wake cycle starts a backup
\* only when backup is enabled and a day has gone by since the last-backup
\* timestamp, and it does start one then (unless reading the settings
\* raised); the timestamp is written by a backup whose copy succeeded and by
\* nothing else, so a backup that failed stays due for the next wake, and
\* after a backup that succeeded none is due until a day has gone by.
C37_BackupDueGating ==
  [][ /\ PartRuns("backup") =>
            /\ w_bk'[1] \in {"ok", "caught"} => (backup_enabled /\ backup_due)
            /\ w_bk'[1] = "skip" => ~(backup_enabled /\ backup_due)
            /\ w_bk'[1] \in {"ok", "caught", "skip", "raise"}
            /\ w_bk'[1] = "ok" => ~backup_due'
            /\ w_bk'[1] # "ok" => backup_due' = backup_due
      /\ (backup_due /\ ~backup_due') => (PartRuns("backup") /\ w_bk'[1] = "ok")
      /\ (~backup_due /\ backup_due') => w_pc' = w_pc
    ]_vars

\* The backup of the cycle before failed in its copy; the thread is at the
\* backup part again and the backup is still due.
C37_Witness ==
  /\ w_pc[1] = "backup" /\ w_bk[1] = "caught"
  /\ backup_enabled /\ backup_due

\* C38, as claimed: the share-limit call of a submitted item has
\* ratio_limit the ratio of the rule of the item's rule host, 2.0 when that
\* rule has none; seeding_time_limit that rule's seed days, 14 when it has
\* none, in minutes; and no limit (-1) on inactive seeding time.
C38_ShareLimitValues ==
  [][ (Dispatched /\ t_out'.out = "sent") =>
        LET host == t_out'.it.tracker_host
            rule == IF host \in DOMAIN rules THEN rules[host] ELSE NoRule
        IN /\ t_out'.limits.ratio_limit =
                (IF rule.ratio # NoValue THEN rule.ratio ELSE 2)
           /\ t_out'.limits.seeding_time_limit =
                (IF rule.seed_days # NoValue THEN rule.seed_days ELSE 14) * 24 * 60
           /\ t_out'.limits.inactive_seeding_time_limit = -1
    ]_vars

(* ================== properties of the ledger's entries ================= *)
\* The ledger after a write of (ih, client, now): one entry for ih, that
\* one, every other entry as it was.
Written(ih, client) ==
  /\ DOMAIN sent' = DOMAIN sent \cup {ih}
  /\ sent'[ih] = [client_id |-> client, ts |-> now]
  /\ \A h \in DOMAIN sent \ {ih} : sent'[h] = sent[h]

\* C39: re-dispatch after reset.  A dispatch call that read the ledger
\* after a reset removed an infohash (a client holds it, the ledger read
\* does not) submits an item of that infohash again; every submission that
\* succeeds leaves exactly one entry for its infohash, (client, now),
\* whether or not the ledger had one: an entry there is replaced.
C39_RedispatchAfterReset ==
  [][ /\ (EnqueueTurn /\ EnqueueHash \in Held /\ EnqueueHash \notin e_start) =>
            /\ e_env'.add \in Answers
            /\ e_env'.add = "ok" => e_last'.out = "sent"
      /\ (AutosendTurn /\ AutosendHash \in Held /\ AutosendHash \notin a_start
            /\ a_last'.out \notin {"noclient", "conn", "space"}) =>
            /\ a_env'.add \in Answers
            /\ a_env'.add = "ok" => a_last'.out = "sent"
      /\ (EnqueueTurn /\ e_env'.add = "ok") => Written(EnqueueHash, e_client)
      /\ (AutosendTurn /\ a_env'.add = "ok") => Written(AutosendHash, a_last'.client)
    ]_vars

\* h1 went to client 2 in an earlier call; the ledger was emptied; a call
\* that read the empty ledger has sent h1 to client 1, and the entry of h1
\* is that of client 1 at the later time.
C39_Witness ==
  /\ e_start = {} /\ e_last = Entry("h1", "sent", 1)
  /\ "h1" \in remote[2]
  /\ "h1" \in DOMAIN sent /\ sent["h1"] = [client_id |-> 1, ts |-> 1]

\* C40: a failure of the tagging or of the share-limit call after a
\* torrents_add that succeeded does not undo or block the bookkeeping.  A
\* dispatch whose torrents_add succeeded writes the item to the ledger and
\* counts it, whatever the two later calls did; and a dispatch call that
\* finds the infohash in the ledger submits nothing.
C40_BookkeepingAfterAdd ==
  [][ Dispatched =>
        LET ih == Lower(t_out'.it.infohash)
        IN /\ t_out'.out = "sent" =>
                /\ ih \in remote'[1]
                /\ ih \in DOMAIN sent' /\ sent'[ih] = [client_id |-> 1, ts |-> now]
                /\ t_out'.added = 1
           /\ ih \in DOMAIN sent =>
                /\ t_out'.out = "already" /\ t_out'.added = 0
                /\ remote' = remote /\ sent' = sent
    ]_vars

\* The client took the magnet and refused both the tag and the share
\* limits: the item is in the ledger and counted.
C40_Witness ==
  /\ t_out.out = "sent" /\ t_out.tags = "KO" /\ t_out.set = "KO"
  /\ t_out.added = 1
  /\ Lower(t_out.it.infohash) \in DOMAIN sent

====
